---------------------------- MODULE Spec2Model ----------------------------
(***************************************************************************)
(* Model of the passkey smart-wallet client: StellarSmartWalletService     *)
(* (createWallet / deploySmartWallet, extractRawPublicKeyFromAuthData,     *)
(* getWalletBalanceByContract, contractExists, addFunds) driven by one     *)
(* caller at a time, and the application's handlers (createSmartWallet,    *)
(* signIn, addFixedFundForSignedInContract, reset) started by clicks that  *)
(* may overlap.  Every `await` of the source is a suspension point:        *)
(* an action runs the code from one resumption up to and including the     *)
(* issue of the next awaited call; the collaborator's answer (a value or   *)
(* a thrown error) is the nondeterministic input of the following action.  *)
(***************************************************************************)
EXTENDS Integers, Sequences, FiniteSets, TLC

VARIABLES
  op,       \* entry point being executed, "idle" when none
  pc,       \* the awaited call the invocation is suspended at
  args,     \* arguments of the invocation
  locals,   \* local variables of the running method
  log,      \* calls, builds and signatures made by this invocation, in order
  raised,   \* the error raised inside the try block, NoError when none
  outcome,  \* what the caller gets: pending / returned value / thrown error
  derived,  \* the contract-id derivations made so far: inputs and result
  tasks,            \* the handler invocation started by each click
  localStorage,     \* window.localStorage: the item stored under each key
  document,         \* the page: hidden elements, contract and balance text
  stellarService,   \* the module's singleton service, null until first use
  accountSequence   \* the ledger's sequence number of the submitter account

\* The application around the service: its handlers' state and the page.
ui == <<tasks, localStorage, document, stellarService, accountSequence>>

vars == <<op, pc, args, locals, log, raised, outcome, derived,
          tasks, localStorage, document, stellarService, accountSequence>>

(***************************************************************************)
(* Bounds of the model.                                                    *)
(***************************************************************************)
MaxSequence == 1
MaxResourceFee == 2

(***************************************************************************)
(* Configuration of the service (immutable after construction).            *)
(***************************************************************************)
SubmitterPublicKey == "G-SUBMITTER"
NetworkPassphrase == "passphrase"
NativeContractId == "C-NATIVE"
ContractWasmHash == "wasm-hash"
RpcUrl == "rpc-url"

Undefined == "<undefined>"
NoError == "<none>"
NoTx == [kind |-> "none"]
NoResponse == [kind |-> "none"]
NoArgs == [kind |-> "none"]
NoSorobanData == [kind |-> "none"]

\* Errors a collaborator (ledger RPC / Horizon / SDK client / passkey plugin) may throw.
CollaboratorErrors == {"NetworkError", "HostError"}

ContractIds == {"C-WALLET-1", "C-WALLET-2"}

(***************************************************************************)
(* Transactions as the SDK builds them.                                    *)
(***************************************************************************)
TxTimeoutSeconds == 300

\* StellarSdk.Operation.invokeContractFunction({contract, function, args, auth})
InvokeContractFunction(sacTx) ==
  [contract |-> sacTx.contract, function |-> sacTx.function,
   args |-> sacTx.args, auth |-> sacTx.auth]

\* new TransactionBuilder(account, {fee, networkPassphrase}).addOperation(o).setTimeout(t).build()
BuildTransaction(account, fee, operation) ==
  [kind |-> "tx", source |-> account.id, sequence |-> account.sequence + 1,
   fee |-> fee, networkPassphrase |-> NetworkPassphrase,
   operation |-> operation, timeout |-> TxTimeoutSeconds,
   sorobanData |-> NoSorobanData, signatures |-> <<>>]

\* Mutant: the clone keeps the placeholder fee.
CloneFromKeepsFee(tx, fee, sorobanData) ==
  [tx EXCEPT !.sorobanData = sorobanData, !.signatures = <<>>]

\* TransactionBuilder.cloneFrom(tx, {fee, sorobanData}).build(): same source,
\* sequence, operation and time bounds; a new fee and soroban data; no signatures.
CloneFrom(tx, fee, sorobanData) ==
  [tx EXCEPT !.fee = fee, !.sorobanData = sorobanData, !.signatures = <<>>]

\* Mutant: no wrapper is built, the re-priced transaction is used as it is.
BuildFeeBumpTransactionNoWrapper(feeSource, baseFee, innerTx, passphrase) == innerTx

\* TransactionBuilder.buildFeeBumpTransaction(feeSource, baseFee, innerTx, passphrase)
BuildFeeBumpTransaction(feeSource, baseFee, innerTx, passphrase) ==
  [kind |-> "feeBump", feeSource |-> feeSource, fee |-> baseFee,
   networkPassphrase |-> passphrase, inner |-> innerTx, signatures |-> <<>>]

\* tx.sign(keypair)
Sign(tx, key) == [tx EXCEPT !.signatures = Append(@, key)]

Event(ev, arg) == [ev |-> ev, arg |-> arg]

\* What a call hands back to its caller.
Pending == [kind |-> "pending"]
Returned(v) == [kind |-> "returned", value |-> v]
Thrown(e) == [kind |-> "thrown", error |-> e]

(***************************************************************************)
(* Numbers of the language runtime.  A natural of any size is the sequence *)
(* of its digits in base 128, least significant first, without a high      *)
(* zero; a small operand is an integer of at most 10,000,000, so that no   *)
(* intermediate value leaves 31 bits.                                      *)
(***************************************************************************)
LimbBits == 7
LimbBase == 128

RECURSIVE NatOf(_)
NatOf(n) == IF n = 0 THEN <<>> ELSE <<n % LimbBase>> \o NatOf(n \div LimbBase)

RECURSIVE Trim(_)
Trim(a) ==
  IF a # <<>> /\ a[Len(a)] = 0 THEN Trim(SubSeq(a, 1, Len(a) - 1)) ELSE a

Limb(a, i) == IF i <= Len(a) THEN a[i] ELSE 0
Rest(a) == IF a = <<>> THEN <<>> ELSE Tail(a)

RECURSIVE AddCarry(_, _, _)
AddCarry(a, b, carry) ==
  IF a = <<>> /\ b = <<>> THEN (IF carry = 0 THEN <<>> ELSE <<carry>>)
  ELSE LET sum == Limb(a, 1) + Limb(b, 1) + carry
       IN <<sum % LimbBase>> \o AddCarry(Rest(a), Rest(b), sum \div LimbBase)

Add(a, b) == AddCarry(a, b, 0)

\* a * k + carry for a small k
RECURSIVE MulSmall(_, _, _)
MulSmall(a, k, carry) ==
  IF a = <<>> THEN NatOf(carry)
  ELSE LET product == a[1] * k + carry
       IN <<product % LimbBase>> \o MulSmall(Tail(a), k, product \div LimbBase)

RECURSIVE Mul(_, _)
Mul(a, b) ==
  IF a = <<>> \/ b = <<>> THEN <<>>
  ELSE Add(MulSmall(a, b[1], 0), Trim(<<0>> \o Mul(a, Tail(b))))

\* Division by a small d, from the highest digit down: a = q * d + r.
RECURSIVE DivSmallStep(_, _, _, _, _)
DivSmallStep(a, d, i, q, r) ==
  IF i = 0 THEN [q |-> Trim(q), r |-> r]
  ELSE LET current == r * LimbBase + a[i]
       IN DivSmallStep(a, d, i - 1, <<current \div d>> \o q, current % d)

DivSmall(a, d) == DivSmallStep(a, d, Len(a), <<>>, 0)

ShiftLeft(a, k) ==
  IF a = <<>> THEN <<>>
  ELSE [i \in 1..(k \div LimbBits) |-> 0] \o MulSmall(a, 2 ^ (k % LimbBits), 0)

ShiftRight(a, k) ==
  IF k \div LimbBits >= Len(a) THEN <<>>
  ELSE DivSmall(SubSeq(a, k \div LimbBits + 1, Len(a)), 2 ^ (k % LimbBits)).q

\* The binary digit of weight 2^i
BitAt(a, i) == (Limb(a, i \div LimbBits + 1) \div 2 ^ (i % LimbBits)) % 2

BitLength(a) ==
  IF a = <<>> THEN 0
  ELSE LimbBits * (Len(a) - 1) + Cardinality({i \in 0..(LimbBits - 1) : 2 ^ i <= a[Len(a)]})

\* a mod 2^k is not zero
LowBitsSet(a, k) == \E i \in 0..(k - 1) : BitAt(a, i) = 1

\* The natural written with these decimal digits, most significant first.
RECURSIVE FromDecimal(_)
FromDecimal(digits) ==
  IF digits = <<>> THEN <<>>
  ELSE MulSmall(FromDecimal(SubSeq(digits, 1, Len(digits) - 1)), 10, digits[Len(digits)])

(***************************************************************************)
(* Number: IEEE 754 binary64, a finite value kept as sign, odd significand *)
(* m below 2^53 and exponent e, of value m * 2^e (zero: m empty, e = 0).   *)
(* Subnormals, overflow and the sign of zero are left out: the amounts of  *)
(* this program are far from either end of the range.                      *)
(***************************************************************************)
SignificandBits == 53

NaN == [tag |-> "NaN"]
Infinity == [tag |-> "Infinity"]
UndefinedAmount == [tag |-> "undefined"]

Canonical(neg, m, e) ==
  IF m = <<>> THEN [tag |-> "number", neg |-> FALSE, m |-> <<>>, e |-> 0]
  ELSE LET zeros == CHOOSE i \in 0..BitLength(m) :
                      BitAt(m, i) = 1 /\ \A j \in 0..(i - 1) : BitAt(m, j) = 0
       IN [tag |-> "number", neg |-> neg, m |-> ShiftRight(m, zeros), e |-> e + zeros]

\* The Number nearest to n * 2^e, ties to the even significand.
RoundToNumber(neg, n, e) ==
  IF BitLength(n) <= SignificandBits THEN Canonical(neg, n, e)
  ELSE LET drop == BitLength(n) - SignificandBits
           kept == ShiftRight(n, drop)
           half == BitAt(n, drop - 1) = 1
           sticky == LowBitsSet(n, drop - 1)
           up == half /\ (sticky \/ BitAt(kept, 0) = 1)
       IN Canonical(neg, IF up THEN Add(kept, <<1>>) ELSE kept, e + drop)

\* a divided by 10^places: the quotient, and whether a remainder was left.
RECURSIVE DivPowerOfTen(_, _, _)
DivPowerOfTen(a, places, inexact) ==
  IF places = 0 THEN [q |-> a, inexact |-> inexact]
  ELSE LET divided == DivSmall(a, 10)
       IN DivPowerOfTen(divided.q, places - 1, inexact \/ divided.r # 0)

\* The Number a decimal literal denotes: digits / 10^places, negated if neg.
\* The quotient is taken with 90 binary places, which leaves it more than
\* 53 significant bits, and with a last bit that says whether the division
\* left a remainder.
GuardBits == 90

ToNumber(neg, digits, places) ==
  LET divided == DivPowerOfTen(ShiftLeft(FromDecimal(digits), GuardBits), places, FALSE)
  IN RoundToNumber(neg, MulSmall(divided.q, 2, IF divided.inexact THEN 1 ELSE 0),
                   -GuardBits - 1)

\* x * y of two Numbers
Times(x, y) ==
  IF x.tag \in {"NaN", "undefined"} \/ y.tag \in {"NaN", "undefined"} THEN NaN
  ELSE IF x.tag = "Infinity" \/ y.tag = "Infinity" THEN Infinity
  ELSE RoundToNumber(x.neg # y.neg, Mul(x.m, y.m), x.e + y.e)

IsInteger(x) == x.tag = "number" /\ x.e >= 0

\* Math.round(x): the integer nearest to x, a half rounded towards +Infinity.
MathRound(x) ==
  IF x.tag # "number" \/ x.e >= 0 THEN x
  ELSE LET floor == ShiftRight(x.m, -x.e)
           half == BitAt(x.m, -x.e - 1) = 1
           more == LowBitsSet(x.m, -x.e - 1)
           up == IF x.neg THEN half /\ more ELSE half
       IN Canonical(x.neg, IF up THEN Add(floor, <<1>>) ELSE floor, 0)

\* BigInt(x) of a Number: a RangeError unless x is an integer.
BigIntThrows(n) == ~IsInteger(n)
BigInt(n) == [tag |-> "bigint", neg |-> n.neg, magnitude |-> ShiftLeft(n.m, n.e)]

(***************************************************************************)
(* Strings are sequences of characters.                                    *)
(***************************************************************************)
DigitChars == <<"0", "1", "2", "3", "4", "5", "6", "7", "8", "9">>

\* The decimal digits of a positive natural, most significant first.
RECURSIVE DecimalDigits(_)
DecimalDigits(a) ==
  IF a = <<>> THEN <<>>
  ELSE LET divided == DivSmall(a, 10)
       IN DecimalDigits(divided.q) \o <<DigitChars[divided.r + 1]>>

\* BigInt.prototype.toString()
BigIntToString(neg, magnitude) ==
  IF magnitude = <<>> THEN <<"0">>
  ELSE (IF neg THEN <<"-">> ELSE <<>>) \o DecimalDigits(magnitude)

\* Mutant: nothing is padded.
PadStartNothing(str, targetLength, padChar) == str

\* String.prototype.padStart(targetLength, padString) for a one-character pad
PadStart(str, targetLength, padChar) ==
  IF Len(str) >= targetLength THEN str
  ELSE [i \in 1..(targetLength - Len(str)) |-> padChar] \o str

\* str.replace(/0+$/, '')
RECURSIVE StripTrailingZeros(_)
StripTrailingZeros(str) ==
  IF str # <<>> /\ str[Len(str)] = "0"
    THEN StripTrailingZeros(SubSeq(str, 1, Len(str) - 1))
    ELSE str

(***************************************************************************)
(* The unit converter: 1 XLM = 10,000,000 stroops.                         *)
(***************************************************************************)
StroopsPerXlm == 10000000
FractionDigits == 7

NumberOf(n) == Canonical(FALSE, NatOf(n), 0)

\* stroopsToXlm(stroops) of a bigint or a Number
stroopsToXlm(stroops) ==
  IF stroops.tag # "bigint" /\ BigIntThrows(stroops)
    THEN Thrown("RangeError: not an integer")
  ELSE LET stroopsBigInt == IF stroops.tag = "bigint" THEN stroops ELSE BigInt(stroops)
           divided == DivSmall(stroopsBigInt.magnitude, StroopsPerXlm)
           whole == BigIntToString(stroopsBigInt.neg, divided.q)
           fraction == BigIntToString(stroopsBigInt.neg, NatOf(divided.r))
           fractionStr == StripTrailingZeros(PadStart(fraction, FractionDigits, "0"))
       IN Returned(IF fractionStr # <<>> THEN whole \o <<".">> \o fractionStr ELSE whole)

\* xlmToStroops: Math.round(Number(xlm) * 10_000_000)
xlmToStroops(xlm) == MathRound(Times(xlm, NumberOf(StroopsPerXlm)))

(***************************************************************************)
(* Amounts handed to addFunds: Num(v) is the Number the literal of         *)
(* v / 10^8 XLM denotes (v counts tenths of a stroop).                     *)
(***************************************************************************)
RECURSIVE IntDigits(_)
IntDigits(n) == IF n < 10 THEN <<n>> ELSE IntDigits(n \div 10) \o <<n % 10>>

Num(v) == ToNumber(v < 0, IntDigits(IF v < 0 THEN -v ELSE v), 8)
AmountInputs == {UndefinedAmount, NaN, Infinity, Num(-14), Num(0), Num(14), Num(15), Num(500)}

(***************************************************************************)
(* Byte buffers.  A Uint8Array / ArrayBuffer is a sequence of 0..255;      *)
(* offsets are 0-based as in the source, sequence indices are offset + 1.  *)
(***************************************************************************)
\* Mutant: no bounds check, a missing byte reads as 0.
GetUint16Unchecked(bytes, byteOffset) ==
  LET at(i) == IF i <= Len(bytes) THEN bytes[i] ELSE 0
  IN [threw |-> FALSE,
      value |-> at(byteOffset + 1) * 256 + at(byteOffset + 2),
      read |-> {byteOffset, byteOffset + 1}]

\* Mutant: the length is read little-endian.
GetUint16LittleEndian(bytes, byteOffset) ==
  IF byteOffset + 2 > Len(bytes)
    THEN [threw |-> TRUE, value |-> 0, read |-> {}]
    ELSE [threw |-> FALSE,
          value |-> bytes[byteOffset + 2] * 256 + bytes[byteOffset + 1],
          read |-> {byteOffset, byteOffset + 1}]

\* DataView.getUint16(byteOffset): big-endian; throws a RangeError, reading
\* nothing, when byteOffset + 2 exceeds the length of the view.
GetUint16(bytes, byteOffset) ==
  IF byteOffset + 2 > Len(bytes)
    THEN [threw |-> TRUE, value |-> 0, read |-> {}]
    ELSE [threw |-> FALSE,
          value |-> bytes[byteOffset + 1] * 256 + bytes[byteOffset + 2],
          read |-> {byteOffset, byteOffset + 1}]

\* Mutant: the slice starts one byte early.
SliceFromOneEarly(bytes, begin) ==
  IF begin > Len(bytes) THEN <<>> ELSE SubSeq(bytes, begin, Len(bytes))

\* ArrayBuffer.slice(begin): begin is clamped to the length of the buffer.
SliceFrom(bytes, begin) ==
  IF begin >= Len(bytes) THEN <<>> ELSE SubSeq(bytes, begin + 1, Len(bytes))

(***************************************************************************)
(* cbor.decodeFirstSync: decodes the first CBOR data item of a buffer and  *)
(* ignores what follows it.  The buffers of this model hold integers       *)
(* (major types 0 and 1), byte strings (2) and maps (5) with arguments of  *)
(* at most two bytes; a truncated item is a decoding error, and so is, in  *)
(* the model, an initial byte of another kind.  A map is kept as the       *)
(* sequence of its (key, value) pairs in the order of the encoding.        *)
(***************************************************************************)
IntItem(n) == [type |-> "int", n |-> n]
BytesItem(b) == [type |-> "bytes", b |-> b]
MapItem(pairs) == [type |-> "map", pairs |-> pairs]
AbsentItem == [type |-> "undefined"]

DecodeError == [ok |-> FALSE, item |-> AbsentItem, next |-> 0]
Decoded(item, next) == [ok |-> TRUE, item |-> item, next |-> next]

\* The argument of the item whose initial byte is at index pos:
\* [ok, value, next] with next the index after the argument.
CborArgument(bytes, pos) ==
  LET info == bytes[pos] % 32
  IN IF info < 24 THEN [ok |-> TRUE, value |-> info, next |-> pos + 1]
     ELSE IF info = 24 /\ pos + 1 <= Len(bytes)
       THEN [ok |-> TRUE, value |-> bytes[pos + 1], next |-> pos + 2]
     ELSE IF info = 25 /\ pos + 2 <= Len(bytes)
       THEN [ok |-> TRUE, value |-> bytes[pos + 1] * 256 + bytes[pos + 2], next |-> pos + 3]
     ELSE [ok |-> FALSE, value |-> 0, next |-> pos]

RECURSIVE CborItem(_, _)
RECURSIVE CborItems(_, _, _, _)

\* Decodes `count` consecutive items starting at index pos, appended to acc.
CborItems(bytes, pos, count, acc) ==
  IF count = 0 THEN [ok |-> TRUE, items |-> acc, next |-> pos]
  ELSE LET first == CborItem(bytes, pos)
       IN IF ~first.ok THEN [ok |-> FALSE, items |-> acc, next |-> pos]
          ELSE CborItems(bytes, first.next, count - 1, Append(acc, first.item))

\* Decodes the item whose initial byte is at index pos.
CborItem(bytes, pos) ==
  IF pos > Len(bytes) THEN DecodeError
  ELSE LET major == bytes[pos] \div 32
           arg == CborArgument(bytes, pos)
       IN IF ~arg.ok THEN DecodeError
          ELSE IF major = 0 THEN Decoded(IntItem(arg.value), arg.next)
          ELSE IF major = 1 THEN Decoded(IntItem(-1 - arg.value), arg.next)
          ELSE IF major = 2
            THEN IF arg.next + arg.value - 1 > Len(bytes) THEN DecodeError
                 ELSE Decoded(BytesItem(SubSeq(bytes, arg.next, arg.next + arg.value - 1)),
                              arg.next + arg.value)
          ELSE IF major = 5
            THEN LET elems == CborItems(bytes, arg.next, 2 * arg.value, <<>>)
                 IN IF ~elems.ok THEN DecodeError
                    ELSE Decoded(
                           MapItem([i \in 1..arg.value |->
                                      <<elems.items[2 * i - 1], elems.items[2 * i]>>]),
                           elems.next)
          ELSE DecodeError

DecodeFirstSync(bytes) == CborItem(bytes, 1)

\* Map.get(label): the value set last for the integer key, AbsentItem when none.
MapGet(coseKey, label) ==
  LET hits == {i \in 1..Len(coseKey.pairs) : coseKey.pairs[i][1] = IntItem(label)}
  IN IF hits = {} THEN AbsentItem
     ELSE coseKey.pairs[CHOOSE i \in hits : \A j \in hits : j <= i][2]

\* !value of JavaScript for a decoded value: undefined and 0 are falsy; a
\* Uint8Array, even an empty one, and a Map are truthy.
Falsy(item) ==
  \/ item = AbsentItem
  \/ item = IntItem(0)

\* value.length of a decoded value: the length of a byte string; undefined
\* (NaN in arithmetic) for a number or a Map.
HasLength(item) == item.type = "bytes"

(***************************************************************************)
(* extractRawPublicKeyFromAuthData(authDataBytes)                          *)
(***************************************************************************)
RP_ID_HASH_LENGTH == 32
FLAGS_LENGTH == 1
SIGNATURE_COUNTER_LENGTH == 4
AAGUID_LENGTH == 16
CRED_ID_LENGTH_BYTES == 2

ExtractThrew(e, read) == [outcome |-> Thrown(e), read |-> read, coseKeyBytes |-> <<>>]
ExtractReturned(rawKey, read, coseKeyBytes) ==
  [outcome |-> Returned(rawKey), read |-> read, coseKeyBytes |-> coseKeyBytes]

\* Mutant: the ES256 path is chosen by the key type alone.
IsES256ByKeyType(kty, alg) == kty = IntItem(2)

\* kty === 2 && alg === -7
IsES256(kty, alg) == kty = IntItem(2) /\ alg = IntItem(-7)

\* kty === 3 && alg === -257
IsRS256(kty, alg) == kty = IntItem(3) /\ alg = IntItem(-257)

\* Mutant: y is written before x.
UncompressedPointSwapped(x, y) == <<4>> \o y \o x

\* rawKey[0] = 0x04; rawKey.set(x, 1); rawKey.set(y, 1 + x.length)
UncompressedPoint(x, y) == <<4>> \o x \o y

\* rawKey.set(n, 0); rawKey.set(e, n.length)
ModulusThenExponent(n, e) == n \o e

\* The dispatch on (kty, alg) over the decoded COSE key map.
ExtractFromCoseKey(coseKey) ==
  LET kty == MapGet(coseKey, 1)
      alg == MapGet(coseKey, 3)
  IN IF IsES256(kty, alg)
       THEN LET x == MapGet(coseKey, -2)
                y == MapGet(coseKey, -3)
            IN IF Falsy(x) \/ Falsy(y)
                 THEN Thrown("Malformed ES256 COSE key: missing x or y")
               ELSE IF x.type = "bytes" /\ y.type = "bytes"
                 THEN Returned(UncompressedPoint(x.b, y.b))
               \* new Uint8Array(NaN) is empty: rawKey.set(x, 1) is out of bounds.
               ELSE Thrown("RangeError: offset is out of bounds")
     ELSE IF IsRS256(kty, alg)
       THEN LET n == MapGet(coseKey, -1)
                e == MapGet(coseKey, -2)
            IN IF Falsy(n) \/ Falsy(e)
                 THEN Thrown("Malformed RS256 COSE key: missing n or e")
               ELSE IF n.type = "bytes" /\ e.type = "bytes"
                 THEN Returned(ModulusThenExponent(n.b, e.b))
               \* new Uint8Array(NaN) is empty: set() of a non-empty source
               \* is out of bounds, set() of anything else copies nothing.
               ELSE IF (HasLength(n) /\ Len(n.b) > 0) \/ (HasLength(e) /\ Len(e.b) > 0)
                 THEN Thrown("RangeError: offset is out of bounds")
               ELSE Returned(<<>>)
     ELSE Thrown("Unsupported COSE key")

ExtractRawPublicKeyFromAuthData(authDataBytes) ==
  LET offset0 == RP_ID_HASH_LENGTH + FLAGS_LENGTH + SIGNATURE_COUNTER_LENGTH + AAGUID_LENGTH
      credIdLen == GetUint16(authDataBytes, offset0)
      \* authDataBytes.buffer.slice(byteOffset, byteOffset + byteLength) copies the view
      copied == 0..(Len(authDataBytes) - 1)
  IN IF credIdLen.threw
       THEN ExtractThrew("RangeError: Offset is outside the bounds of the DataView",
                         copied \cup credIdLen.read)
     ELSE
       LET offset == offset0 + CRED_ID_LENGTH_BYTES + credIdLen.value
           coseKeyBytes == SliceFrom(authDataBytes, offset)
           read == copied \cup credIdLen.read
       IN IF Len(coseKeyBytes) = 0
            THEN ExtractThrew("COSE key not found in authData", read)
          ELSE
            LET result == DecodeFirstSync(coseKeyBytes)
            IN IF ~result.ok
                 THEN [outcome |-> Thrown("CBOR decode error"),
                       read |-> read, coseKeyBytes |-> coseKeyBytes]
               ELSE IF result.item.type # "map"
                 THEN [outcome |-> Thrown("Invalid COSE key structure"),
                       read |-> read, coseKeyBytes |-> coseKeyBytes]
               ELSE [outcome |-> ExtractFromCoseKey(result.item),
                     read |-> read, coseKeyBytes |-> coseKeyBytes]

(***************************************************************************)
(* Authenticator data handed to the parser: CBOR-encoded COSE keys behind  *)
(* the 53 fixed bytes (rpIdHash, flags, counter, AAGUID), the 2-byte       *)
(* credential-id length and the credential id; every buffer also appears   *)
(* truncated at every length.                                              *)
(***************************************************************************)
MaxCredIdLen == 2
CoordinateWidth == 2

EncodeArgument(major, n) ==
  IF n < 24 THEN <<major * 32 + n>>
  ELSE IF n < 256 THEN <<major * 32 + 24, n>>
  ELSE <<major * 32 + 25, n \div 256, n % 256>>

EncodeItem(item) ==
  IF item.type = "int"
    THEN IF item.n >= 0 THEN EncodeArgument(0, item.n) ELSE EncodeArgument(1, -1 - item.n)
    ELSE EncodeArgument(2, Len(item.b)) \o item.b

RECURSIVE EncodePairs(_)
EncodePairs(pairs) ==
  IF pairs = <<>> THEN <<>>
  ELSE EncodeItem(pairs[1][1]) \o EncodeItem(pairs[1][2]) \o EncodePairs(Tail(pairs))

EncodeMap(pairs) == EncodeArgument(5, Len(pairs)) \o EncodePairs(pairs)

Pair(label, item) == <<IntItem(label), item>>
Coordinate(first) == BytesItem([i \in 1..CoordinateWidth |-> first + i - 1])

\* COSE key maps: the two supported pairs, well-formed and with a missing or
\* empty field, the mixed pairs, another key type, and maps without kty or alg.
ES256Key ==
  <<Pair(1, IntItem(2)), Pair(3, IntItem(-7)), Pair(-1, IntItem(1)),
    Pair(-2, Coordinate(16)), Pair(-3, Coordinate(32))>>
RS256Key ==
  <<Pair(1, IntItem(3)), Pair(3, IntItem(-257)),
    Pair(-1, Coordinate(200)), Pair(-2, BytesItem(<<1, 0, 1>>))>>
EdDSAKey ==
  <<Pair(1, IntItem(1)), Pair(3, IntItem(-8)), Pair(-1, IntItem(6)),
    Pair(-2, Coordinate(16))>>

CoseKeyMaps ==
  { ES256Key,
    <<Pair(1, IntItem(2)), Pair(3, IntItem(-7)), Pair(-1, IntItem(1)),
      Pair(-2, Coordinate(16))>>,
    <<Pair(1, IntItem(2)), Pair(3, IntItem(-7)), Pair(-1, IntItem(1)),
      Pair(-2, BytesItem(<<>>)), Pair(-3, Coordinate(32))>>,
    RS256Key,
    <<Pair(1, IntItem(3)), Pair(3, IntItem(-257)), Pair(-1, Coordinate(200))>>,
    <<Pair(1, IntItem(2)), Pair(3, IntItem(-257)),
      Pair(-2, Coordinate(16)), Pair(-3, Coordinate(32))>>,
    <<Pair(1, IntItem(3)), Pair(3, IntItem(-7)),
      Pair(-1, Coordinate(200)), Pair(-2, BytesItem(<<1, 0, 1>>))>>,
    EdDSAKey,
    \* ES256 without x, with an empty y, with other coordinates, with a short x
    <<Pair(1, IntItem(2)), Pair(3, IntItem(-7)), Pair(-1, IntItem(1)),
      Pair(-3, Coordinate(32))>>,
    <<Pair(1, IntItem(2)), Pair(3, IntItem(-7)), Pair(-1, IntItem(1)),
      Pair(-2, Coordinate(16)), Pair(-3, BytesItem(<<>>))>>,
    <<Pair(3, IntItem(-7)), Pair(1, IntItem(2)),
      Pair(-3, Coordinate(64)), Pair(-2, Coordinate(48))>>,
    <<Pair(1, IntItem(2)), Pair(3, IntItem(-7)),
      Pair(-2, BytesItem(<<9>>)), Pair(-3, Coordinate(32))>>,
    \* RS256 without modulus, with an empty modulus, with an empty exponent
    <<Pair(1, IntItem(3)), Pair(3, IntItem(-257)), Pair(-2, BytesItem(<<1, 0, 1>>))>>,
    <<Pair(1, IntItem(3)), Pair(3, IntItem(-257)),
      Pair(-1, BytesItem(<<>>)), Pair(-2, BytesItem(<<1, 0, 1>>))>>,
    <<Pair(1, IntItem(3)), Pair(3, IntItem(-257)),
      Pair(-1, Coordinate(200)), Pair(-2, BytesItem(<<>>))>>,
    <<Pair(3, IntItem(-7)), Pair(-2, Coordinate(16)), Pair(-3, Coordinate(32))>>,
    <<Pair(1, IntItem(2)), Pair(-2, Coordinate(16)), Pair(-3, Coordinate(32))>> }

\* What follows the credential id: an encoded key map, alone or followed by
\* extension data, or a single integer (CBOR, but no map).
CoseRegions ==
  {EncodeMap(m) : m \in CoseKeyMaps}
    \cup {EncodeMap(m) \o <<161, 0, 0>> : m \in CoseKeyMaps}
    \cup {<<7>>}

FixedPrefix == [i \in 1..(32 + 1 + 4 + 16) |-> i]

AuthData(declaredLen, credId, coseRegion) ==
  FixedPrefix \o <<declaredLen \div 256, declaredLen % 256>> \o credId \o coseRegion

CredentialIdBytes(len) == [i \in 1..len |-> 128 + i]

CompleteAuthData ==
  {AuthData(len, CredentialIdBytes(len), region) :
     len \in 0..MaxCredIdLen, region \in CoseRegions}
    \cup {AuthData(256 + len, CredentialIdBytes(len), region) :
            len \in 0..MaxCredIdLen, region \in CoseRegions}

AuthDataInputs ==
  UNION {{SubSeq(b, 1, n) : n \in 0..Len(b)} : b \in CompleteAuthData}

(***************************************************************************)
(* Passkey registration results handed to createWallet.  The attestation   *)
(* object is kept decoded: cbor.decode either throws or yields its fmt and *)
(* authData fields.                                                        *)
(***************************************************************************)
RawIds == {CredentialIdBytes(len) : len \in 1..MaxCredIdLen}

AttestationObjects ==
  {[decodable |-> FALSE, fmt |-> "none", authData |-> <<>>]}
    \cup {[decodable |-> TRUE, fmt |-> "none", authData |-> b] :
            b \in { AuthData(MaxCredIdLen, CredentialIdBytes(MaxCredIdLen), EncodeMap(ES256Key)),
                    AuthData(MaxCredIdLen, CredentialIdBytes(MaxCredIdLen), EncodeMap(RS256Key)),
                    AuthData(0, <<>>, EncodeMap(EdDSAKey)),
                    SubSeq(FixedPrefix, 1, RP_ID_HASH_LENGTH) }}

Passkeys ==
  {[id |-> "credential", rawId |-> r, response |-> [attestationObject |-> a]] :
     r \in RawIds, a \in AttestationObjects}

NoPasskey == [kind |-> "none"]

\* cbor.decode(attestationObject.buffer)
CborDecode(attestationObject) ==
  IF attestationObject.decodable
    THEN Returned([fmt |-> attestationObject.fmt, authData |-> attestationObject.authData])
    ELSE Thrown("CBOR decode error")

\* btoa(String.fromCharCode(...bytes)): standard padded base64, kept as the
\* sequence of the alphabet indices 0..63 of its characters, 64 for '='.
RECURSIVE Btoa(_)
Btoa(bytes) ==
  IF Len(bytes) = 0 THEN <<>>
  ELSE IF Len(bytes) = 1
    THEN <<bytes[1] \div 4, (bytes[1] % 4) * 16, 64, 64>>
  ELSE IF Len(bytes) = 2
    THEN <<bytes[1] \div 4, (bytes[1] % 4) * 16 + bytes[2] \div 16, (bytes[2] % 16) * 4, 64>>
  ELSE <<bytes[1] \div 4, (bytes[1] % 4) * 16 + bytes[2] \div 16,
         (bytes[2] % 16) * 4 + bytes[3] \div 64, bytes[3] % 64>>
         \o Btoa(SubSeq(bytes, 4, Len(bytes)))

\* Buffer.from(base64String): the character codes of the base64 alphabet.
Base64CharCode(index) ==
  IF index < 26 THEN 65 + index
  ELSE IF index < 52 THEN 97 + (index - 26)
  ELSE IF index < 62 THEN 48 + (index - 52)
  ELSE IF index = 62 THEN 43
  ELSE IF index = 63 THEN 47
  ELSE 61

BufferFrom(base64String) == [i \in 1..Len(base64String) |-> Base64CharCode(base64String[i])]

\* StellarSdk.hash: SHA-256, kept as a digest that names what was hashed.
Hash(data) == [sha256 |-> data]

DeployTimeoutSeconds == 60

\* Mutant: a fixed salt, whatever the credential.
DeployOptionsFixedSalt(credentialId) ==
  [rpcUrl |-> RpcUrl, wasmHash |-> ContractWasmHash,
   networkPassphrase |-> NetworkPassphrase, publicKey |-> SubmitterPublicKey,
   salt |-> Hash(<<>>), timeoutInSeconds |-> DeployTimeoutSeconds]

DeployOptions(credentialId) ==
  [rpcUrl |-> RpcUrl, wasmHash |-> ContractWasmHash,
   networkPassphrase |-> NetworkPassphrase, publicKey |-> SubmitterPublicKey,
   salt |-> Hash(BufferFrom(credentialId)), timeoutInSeconds |-> DeployTimeoutSeconds]

DeploySigner(credentialId, rawPublicKey) ==
  [tag |-> "Secp256r1",
   values |-> [credentialId |-> BufferFrom(credentialId), publicKey |-> rawPublicKey,
               storage |-> "Persistent"]]

\* deploySmartWallet(passkey) up to the call of Client.deploy: the error it
\* throws, or the arguments of the call.
DeploySmartWallet(passkey) ==
  LET decoded == CborDecode(passkey.response.attestationObject)
  IN IF decoded.kind = "thrown" THEN [threw |-> TRUE, error |-> decoded.error]
     ELSE LET extracted == ExtractRawPublicKeyFromAuthData(decoded.value.authData).outcome
          IN IF extracted.kind = "thrown" THEN [threw |-> TRUE, error |-> extracted.error]
             ELSE LET credentialId == Btoa(passkey.rawId)
                  IN [threw |-> FALSE,
                      signer |-> DeploySigner(credentialId, extracted.value),
                      options |-> DeployOptions(credentialId)]

(***************************************************************************)
(* The application around the service (capacitor-passkey-demo.ts): local   *)
(* storage, the page, and the handler invocations started by clicks.  A    *)
(* handler is an async function: it runs from one resumption to its next   *)
(* `await`, and other handlers run while it is suspended.                  *)
(***************************************************************************)
CREDENTIAL_STORAGE_KEY == "demo:credential"
DEFAULT_FUND_AMOUNT_XLM == 50
FUND_TRANSACTION_DELAY_MS == 7500

\* What localStorage.getItem yields: null, or the text stored under the key.
NoItem == [present |-> FALSE, text |-> <<>>]
Item(text) == [present |-> TRUE, text |-> text]

NoCredential == [id |-> "", rawId |-> <<>>]

\* JSON.stringify of a StoredCredential: the text, token by token.
JsonStringify(credential) ==
  <<"{", "id", credential.id, "rawId", credential.rawId, "}">>

\* JSON.parse: the value a text denotes, or a SyntaxError.
JsonParse(text) ==
  IF /\ Len(text) = 6
     /\ text[1] = "{" /\ text[2] = "id" /\ text[4] = "rawId" /\ text[6] = "}"
    THEN Returned([id |-> text[3], rawId |-> text[5]])
    ELSE Thrown("SyntaxError")

\* A stored text that is no JSON document: a record cut off while written.
CorruptText == <<"{", "id">>

\* The page as index.html delivers it: the contract panel hidden, no text.
PageLoaded == [hidden |-> {"contract-info"}, contractText |-> <<>>, balanceText |-> <<>>]

(***************************************************************************)
(* Initial state: the service is constructed, no invocation is running.    *)
(***************************************************************************)
NoLocals == [account |-> [id |-> Undefined, sequence |-> 0],
             amountToTransfer |-> NaN,
             sacTx |-> NoTx, tmpTx |-> NoTx, simulationRs |-> NoResponse,
             realTransaction |-> NoTx, feeBumpTx |-> NoTx,
             read |-> {}, coseKeyBytes |-> <<>>,
             passkey |-> NoPasskey, deployResponse |-> NoResponse]

\* Handler invocations: one per click; none has been started.
Clicks == {1, 2}

NoTask == [handler |-> "none", pc |-> "idle", trace |-> <<>>,
           credential |-> NoCredential, locals |-> NoLocals, outcome |-> Pending]

Init ==
  /\ op = "idle"
  /\ pc = "idle"
  /\ args = NoArgs
  /\ locals = NoLocals
  /\ log = <<>>
  /\ raised = NoError
  /\ outcome = Pending
  /\ derived = <<>>
  /\ tasks = [c \in Clicks |-> NoTask]
  /\ localStorage = [k \in {CREDENTIAL_STORAGE_KEY} |-> NoItem]
  /\ document = PageLoaded
  /\ stellarService = <<>>
  /\ accountSequence = 0

Running(o, at) == op = o /\ pc = at /\ outcome = Pending

(***************************************************************************)
(* addFunds(contractId, amountToTransferXlm)                               *)
(***************************************************************************)
\* Mutant: the catch block replaces the error by one of its own.
AddFundsCatchReplaces(e) == Thrown("Error in transfer")

\* catch (error) { console.error(...); throw error; }
AddFundsCatch(e) == Thrown(e)

AddFundsThrow(e) ==
  /\ raised' = e
  /\ outcome' = AddFundsCatch(e)

\* Call: argument checks, unit conversion, clients, then `await loadAccount`.
AddFundsStart(contractId, amountToTransferXlm) ==
  /\ op = "idle"
  /\ op' = "addFunds"
  /\ args' = [contractId |-> contractId, amount |-> amountToTransferXlm]
  /\ IF contractId = Undefined
       THEN /\ AddFundsThrow("Contract ID is required")
            /\ pc' = "arguments"
            /\ UNCHANGED <<locals, log>>
     ELSE IF amountToTransferXlm = UndefinedAmount
       THEN /\ AddFundsThrow("Amount to transfer is required")
            /\ pc' = "arguments"
            /\ UNCHANGED <<locals, log>>
     ELSE /\ locals' = [locals EXCEPT !.amountToTransfer = xlmToStroops(amountToTransferXlm)]
          /\ log' = Append(log, Event("loadAccount", [publicKey |-> SubmitterPublicKey]))
          /\ pc' = "loadAccount"
          /\ UNCHANGED <<raised, outcome>>
  /\ UNCHANGED <<derived, ui>>

\* horizonClient.loadAccount threw.
AddFundsLoadAccountFails(e) ==
  /\ Running("addFunds", "loadAccount")
  /\ AddFundsThrow(e)
  /\ UNCHANGED <<op, pc, args, locals, log>>
  /\ UNCHANGED <<derived, ui>>

\* horizonClient.loadAccount returned; `await sacClient.transfer(...)`.
AddFundsLoadAccountReturns(sequence) ==
  /\ Running("addFunds", "loadAccount")
  /\ locals' = [locals EXCEPT !.account = [id |-> SubmitterPublicKey, sequence |-> sequence]]
  /\ IF BigIntThrows(locals.amountToTransfer)
       THEN /\ AddFundsThrow("RangeError: not an integer")
            /\ UNCHANGED <<pc, log>>
       ELSE /\ log' = Append(log, Event("transfer",
                        [from |-> SubmitterPublicKey, to |-> args.contractId,
                         amount |-> BigInt(locals.amountToTransfer)]))
            /\ pc' = "transfer"
            /\ UNCHANGED <<raised, outcome>>
  /\ UNCHANGED <<op, args>>
  /\ UNCHANGED <<derived, ui>>

\* sacClient.transfer threw.
AddFundsTransferFails(e) ==
  /\ Running("addFunds", "transfer")
  /\ AddFundsThrow(e)
  /\ UNCHANGED <<op, pc, args, locals, log>>
  /\ UNCHANGED <<derived, ui>>

\* sacClient.transfer returned the assembled transaction; `await sacTx.signAuthEntries(...)`.
AddFundsTransferReturns ==
  /\ Running("addFunds", "transfer")
  /\ locals' = [locals EXCEPT !.sacTx =
                  [kind |-> "assembled", contract |-> NativeContractId,
                   function |-> "transfer",
                   args |-> <<SubmitterPublicKey, args.contractId, BigInt(locals.amountToTransfer)>>,
                   auth |-> <<>>]]
  /\ log' = Append(log, Event("signAuthEntries", [address |-> SubmitterPublicKey]))
  /\ pc' = "signAuthEntries"
  /\ UNCHANGED <<op, args, raised, outcome>>
  /\ UNCHANGED <<derived, ui>>

\* sacTx.signAuthEntries threw.
AddFundsSignAuthEntriesFails(e) ==
  /\ Running("addFunds", "signAuthEntries")
  /\ AddFundsThrow(e)
  /\ UNCHANGED <<op, pc, args, locals, log>>
  /\ UNCHANGED <<derived, ui>>

\* Auth entries signed; build the provisional transaction with fee '0', sign it,
\* `await rpcClient.simulateTransaction(tmpTx)`.
AddFundsSignAuthEntriesReturns ==
  /\ Running("addFunds", "signAuthEntries")
  /\ LET sacTx == [locals.sacTx EXCEPT !.auth = <<SubmitterPublicKey>>]
         built == BuildTransaction(locals.account, 0, InvokeContractFunction(sacTx))
         tmpTx == Sign(built, SubmitterPublicKey)
     IN /\ locals' = [locals EXCEPT !.sacTx = sacTx, !.tmpTx = tmpTx]
        /\ log' = log \o <<Event("build", built),
                           Event("sign", tmpTx),
                           Event("simulateTransaction", tmpTx)>>
  /\ pc' = "simulateTransaction"
  /\ UNCHANGED <<op, args, raised, outcome>>
  /\ UNCHANGED <<derived, ui>>

\* Mutant: a failed simulateTransaction call is issued a second time.
AddFundsSimulateRetries(e) ==
  /\ Running("addFunds", "simulateTransaction")
  /\ Len(SelectSeq(log, LAMBDA x : x.ev = "simulateTransaction")) < 2
  /\ log' = Append(log, Event("simulateTransaction", locals.tmpTx))
  /\ UNCHANGED <<op, pc, args, locals, raised, outcome, derived, ui>>

\* rpcClient.simulateTransaction threw.
AddFundsSimulateFails(e) ==
  /\ Running("addFunds", "simulateTransaction")
  /\ AddFundsThrow(e)
  /\ UNCHANGED <<op, pc, args, locals, log>>
  /\ UNCHANGED <<derived, ui>>

\* The simulation response arrived.
SimulationResponses ==
  {[transactionData |-> FALSE, resourceFee |-> 0]}
    \cup {[transactionData |-> TRUE, resourceFee |-> f] : f \in 0..MaxResourceFee}

\* Mutant: the missing-transactionData check is dropped.
SimulationFailedIgnored(simulationRs) == FALSE

\* if (!('transactionData' in simulationRs)) throw new Error('Simulation failed')
SimulationFailed(simulationRs) == ~simulationRs.transactionData

AddFundsSimulateReturns(simulationRs) ==
  /\ Running("addFunds", "simulateTransaction")
  /\ IF SimulationFailed(simulationRs)
       THEN /\ AddFundsThrow("Simulation failed")
            /\ locals' = [locals EXCEPT !.simulationRs = simulationRs]
            /\ UNCHANGED <<pc, log>>
       ELSE LET sorobanData == [resourceFee |-> simulationRs.resourceFee]
                resourceFee == sorobanData.resourceFee
                built == CloneFrom(locals.tmpTx, resourceFee, sorobanData)
                realTransaction == Sign(built, SubmitterPublicKey)
                bump == BuildFeeBumpTransaction(SubmitterPublicKey, resourceFee,
                                                realTransaction, NetworkPassphrase)
                feeBumpTx == Sign(bump, SubmitterPublicKey)
            IN /\ locals' = [locals EXCEPT !.simulationRs = simulationRs,
                                           !.realTransaction = realTransaction,
                                           !.feeBumpTx = feeBumpTx]
               /\ log' = log \o <<Event("build", built),
                                  Event("sign", realTransaction),
                                  Event("build", bump),
                                  Event("sign", feeBumpTx),
                                  Event("sendTransaction", feeBumpTx)>>
               /\ pc' = "sendTransaction"
               /\ UNCHANGED <<raised, outcome>>
  /\ UNCHANGED <<op, args>>
  /\ UNCHANGED <<derived, ui>>

\* rpcClient.sendTransaction threw.
AddFundsSendFails(e) ==
  /\ Running("addFunds", "sendTransaction")
  /\ AddFundsThrow(e)
  /\ UNCHANGED <<op, pc, args, locals, log>>
  /\ UNCHANGED <<derived, ui>>

\* rpcClient.sendTransaction returned; return feeBumpTxResult.
AddFundsSendReturns(status) ==
  /\ Running("addFunds", "sendTransaction")
  /\ outcome' = Returned([status |-> status])
  /\ pc' = "done"
  /\ UNCHANGED <<op, args, locals, log, raised>>
  /\ UNCHANGED <<derived, ui>>

AddFunds ==
  \/ \E c \in ContractIds \cup {Undefined}, a \in AmountInputs : AddFundsStart(c, a)
  \/ \E e \in CollaboratorErrors : AddFundsLoadAccountFails(e)
  \/ \E s \in 0..MaxSequence : AddFundsLoadAccountReturns(s)
  \/ \E e \in CollaboratorErrors : AddFundsTransferFails(e)
  \/ AddFundsTransferReturns
  \/ \E e \in CollaboratorErrors : AddFundsSignAuthEntriesFails(e)
  \/ AddFundsSignAuthEntriesReturns
  \/ \E e \in CollaboratorErrors : AddFundsSimulateFails(e)
  \/ \E r \in SimulationResponses : AddFundsSimulateReturns(r)
  \/ \E e \in CollaboratorErrors : AddFundsSendFails(e)
  \/ \E s \in {"PENDING", "ERROR"} : AddFundsSendReturns(s)

(***************************************************************************)
(* createWallet(passkeyCreator, passkeyOptions)                            *)
(***************************************************************************)
\* catch (error) { console.error('Error creating wallet:', error); throw error; }
CreateWalletCatch(e) == Thrown(e)

CreateWalletThrow(e) ==
  /\ raised' = e
  /\ outcome' = CreateWalletCatch(e)

\* Call: `await passkeyCreator(passkeyOptions)`.
CreateWalletStart ==
  /\ op = "idle"
  /\ op' = "createWallet"
  /\ args' = [passkeyOptions |-> "options"]
  /\ log' = Append(log, Event("passkeyCreator", [options |-> "options"]))
  /\ pc' = "passkeyCreator"
  /\ UNCHANGED <<locals, raised, outcome>>
  /\ UNCHANGED <<derived, ui>>

\* passkeyCreator threw.
CreateWalletPasskeyFails(e) ==
  /\ Running("createWallet", "passkeyCreator")
  /\ CreateWalletThrow(e)
  /\ UNCHANGED <<op, pc, args, locals, log>>
  /\ UNCHANGED <<derived, ui>>

\* passkeyCreator returned; `await this.deploySmartWallet(passkey)`, which
\* decodes the attestation, extracts the key and calls Client.deploy.
CreateWalletPasskeyReturns(passkey) ==
  /\ Running("createWallet", "passkeyCreator")
  /\ locals' = [locals EXCEPT !.passkey = passkey]
  /\ pc' = "deploySmartWallet"
  /\ LET deploy == DeploySmartWallet(passkey)
     IN IF deploy.threw
          THEN /\ CreateWalletThrow(deploy.error)
               /\ UNCHANGED log
          ELSE /\ log' = Append(log, Event("deploy",
                           [signer |-> deploy.signer, options |-> deploy.options]))
               /\ UNCHANGED <<raised, outcome>>
  /\ UNCHANGED <<op, args>>
  /\ UNCHANGED <<derived, ui>>

\* Client.deploy threw.
CreateWalletDeployFails(e) ==
  /\ Running("createWallet", "deploySmartWallet")
  /\ CreateWalletThrow(e)
  /\ UNCHANGED <<op, pc, args, locals, log>>
  /\ UNCHANGED <<derived, ui>>

\* Client.deploy returned; `await deployResponse.sign({signTransaction})`.
CreateWalletDeployReturns ==
  /\ Running("createWallet", "deploySmartWallet")
  /\ locals' = [locals EXCEPT !.deployResponse =
                  [kind |-> "deployResponse", call |-> log[Len(log)].arg,
                   signatures |-> <<>>, sent |-> FALSE]]
  /\ log' = Append(log, Event("deployResponse.sign",
                   [signer |-> SubmitterPublicKey, networkPassphrase |-> NetworkPassphrase]))
  /\ pc' = "sign"
  /\ UNCHANGED <<op, args, raised, outcome>>
  /\ UNCHANGED <<derived, ui>>

\* deployResponse.sign threw.
CreateWalletSignFails(e) ==
  /\ Running("createWallet", "sign")
  /\ CreateWalletThrow(e)
  /\ UNCHANGED <<op, pc, args, locals, log>>
  /\ UNCHANGED <<derived, ui>>

\* deployResponse.sign returned; `await deployResponse.send()`.
CreateWalletSignReturns ==
  /\ Running("createWallet", "sign")
  /\ locals' = [locals EXCEPT !.deployResponse.signatures = <<SubmitterPublicKey>>]
  /\ log' = Append(log, Event("deployResponse.send", [signer |-> SubmitterPublicKey]))
  /\ pc' = "send"
  /\ UNCHANGED <<op, args, raised, outcome>>
  /\ UNCHANGED <<derived, ui>>

\* deployResponse.send threw.
CreateWalletSendFails(e) ==
  /\ Running("createWallet", "send")
  /\ CreateWalletThrow(e)
  /\ UNCHANGED <<op, pc, args, locals, log>>
  /\ UNCHANGED <<derived, ui>>

\* deployResponse.send returned; return deployResponse.
CreateWalletSendReturns ==
  /\ Running("createWallet", "send")
  /\ locals' = [locals EXCEPT !.deployResponse.sent = TRUE]
  /\ outcome' = Returned([locals.deployResponse EXCEPT !.sent = TRUE])
  /\ pc' = "done"
  /\ UNCHANGED <<op, args, log, raised>>
  /\ UNCHANGED <<derived, ui>>

CreateWallet ==
  \/ CreateWalletStart
  \/ \E e \in CollaboratorErrors : CreateWalletPasskeyFails(e)
  \/ \E p \in Passkeys : CreateWalletPasskeyReturns(p)
  \/ \E e \in CollaboratorErrors : CreateWalletDeployFails(e)
  \/ CreateWalletDeployReturns
  \/ \E e \in CollaboratorErrors : CreateWalletSignFails(e)
  \/ CreateWalletSignReturns
  \/ \E e \in CollaboratorErrors : CreateWalletSendFails(e)
  \/ CreateWalletSendReturns

(***************************************************************************)
(* getWalletBalanceByContract(contractId)                                  *)
(***************************************************************************)
MaxBalance == 1

\* catch (error) { console.error('Error fetching wallet balance:', error); throw error; }
GetWalletBalanceCatch(e) == Thrown(e)

\* Call: `await sacClient.balance({id: contractId})`.
GetWalletBalanceStart(contractId) ==
  /\ op = "idle"
  /\ op' = "getWalletBalanceByContract"
  /\ args' = [contractId |-> contractId]
  /\ log' = Append(log, Event("balance", [id |-> contractId]))
  /\ pc' = "balance"
  /\ UNCHANGED <<locals, raised, outcome>>
  /\ UNCHANGED <<derived, ui>>

\* sacClient.balance threw.
GetWalletBalanceFails(e) ==
  /\ Running("getWalletBalanceByContract", "balance")
  /\ raised' = e
  /\ outcome' = GetWalletBalanceCatch(e)
  /\ UNCHANGED <<op, pc, args, locals, log>>
  /\ UNCHANGED <<derived, ui>>

\* sacClient.balance returned; return tx.result.
GetWalletBalanceReturns(result) ==
  /\ Running("getWalletBalanceByContract", "balance")
  /\ outcome' = Returned(result)
  /\ pc' = "done"
  /\ UNCHANGED <<op, args, locals, log, raised>>
  /\ UNCHANGED <<derived, ui>>

GetWalletBalanceByContract ==
  \/ \E c \in ContractIds : GetWalletBalanceStart(c)
  \/ \E e \in CollaboratorErrors : GetWalletBalanceFails(e)
  \/ \E b \in 0..MaxBalance : GetWalletBalanceReturns(b)

(***************************************************************************)
(* contractExists(contractId)                                              *)
(***************************************************************************)
InvalidContractId == "not-a-contract-id"

\* Mutant: the catch block rethrows.
ContractExistsCatchRethrows(e) == Thrown(e)

\* catch { return false; }
ContractExistsCatch(e) == Returned(FALSE)

\* Call: new Contract(contractId) throws for a string that is no contract
\* address; otherwise `await rpcClient.getContractData(contractAddress, key)`.
ContractExistsStart(contractId) ==
  /\ op = "idle"
  /\ op' = "contractExists"
  /\ args' = [contractId |-> contractId]
  /\ IF contractId = InvalidContractId
       THEN /\ raised' = "Invalid contract ID"
            /\ outcome' = ContractExistsCatch("Invalid contract ID")
            /\ pc' = "Contract"
            /\ UNCHANGED log
       ELSE /\ log' = Append(log, Event("getContractData",
                        [contract |-> contractId, key |-> "scvLedgerKeyContractInstance"]))
            /\ pc' = "getContractData"
            /\ UNCHANGED <<raised, outcome>>
  /\ UNCHANGED locals
  /\ UNCHANGED <<derived, ui>>

\* rpcClient.getContractData threw: no such entry, or the lookup itself failed.
ContractExistsLookupFails(e) ==
  /\ Running("contractExists", "getContractData")
  /\ raised' = e
  /\ outcome' = ContractExistsCatch(e)
  /\ UNCHANGED <<op, pc, args, locals, log>>
  /\ UNCHANGED <<derived, ui>>

\* rpcClient.getContractData returned; return true.
ContractExistsLookupReturns ==
  /\ Running("contractExists", "getContractData")
  /\ outcome' = Returned(TRUE)
  /\ pc' = "done"
  /\ UNCHANGED <<op, args, locals, log, raised>>
  /\ UNCHANGED <<derived, ui>>

ContractExists ==
  \/ \E c \in ContractIds \cup {InvalidContractId} : ContractExistsStart(c)
  \/ \E e \in CollaboratorErrors \cup {"NotFound"} : ContractExistsLookupFails(e)
  \/ ContractExistsLookupReturns

(***************************************************************************)
(* A direct call of extractRawPublicKeyFromAuthData (synchronous).         *)
(***************************************************************************)
ExtractCall(authDataBytes) ==
  /\ op = "idle"
  /\ op' = "extractRawPublicKeyFromAuthData"
  /\ pc' = "done"
  /\ args' = [authDataBytes |-> authDataBytes]
  /\ LET result == ExtractRawPublicKeyFromAuthData(authDataBytes)
     IN /\ outcome' = result.outcome
        /\ raised' = IF result.outcome.kind = "thrown" THEN result.outcome.error ELSE NoError
        /\ locals' = [locals EXCEPT !.read = result.read,
                                    !.coseKeyBytes = result.coseKeyBytes]
  /\ UNCHANGED log
  /\ UNCHANGED <<derived, ui>>

Extract == \E b \in AuthDataInputs : ExtractCall(b)

(***************************************************************************)
(* deriveContractIdFromPasskeyId(base64CredentialId), of a service built   *)
(* with a submitter key and a network passphrase.  SHA-256, XDR and strkey *)
(* encoding belong to the ledger library: a digest, a serialisation and an *)
(* encoded id are kept as values that name what they were made of.         *)
(***************************************************************************)
MaxDerivations == 2

Service(submitterPublicKey, networkPassphrase) ==
  [submitterPublicKey |-> submitterPublicKey, networkPassphrase |-> networkPassphrase]

\* The service getSmartWalletSdk constructs from DemoConfig.
DemoService == Service(SubmitterPublicKey, NetworkPassphrase)

Services ==
  {Service(k, n) : k \in {SubmitterPublicKey, "G-OTHER"},
                   n \in {NetworkPassphrase, "other passphrase"}}

\* Buffer.from(text) of a passphrase: its UTF-8 bytes.
BufferFromText(text) == [utf8 |-> text]

\* Address.fromString(publicKey).toScAddress()
ToScAddress(publicKey) == [type |-> "scAddressTypeAccount", accountId |-> publicKey]

\* Mutant: the network id of one fixed network.
NetworkIdOfDemoNetwork(networkPassphrase) == Hash(BufferFromText("passphrase"))

\* StellarSdk.hash(Buffer.from(this.networkPassphrase))
NetworkId(networkPassphrase) == Hash(BufferFromText(networkPassphrase))

\* HashIdPreimage.envelopeTypeContractId({networkId, fromAddress {address, salt}})
ContractIdPreimage(networkId, address, salt) ==
  [type |-> "envelopeTypeContractId", networkId |-> networkId,
   contractIdPreimage |-> [type |-> "contractIdPreimageFromAddress",
                           address |-> address, salt |-> salt]]

ToXDR(value) == [xdr |-> value]

\* StrKey.encodeContract(contractHash)
EncodeContract(contractHash) == [strkey |-> "C", payload |-> contractHash]

DeriveContractIdFromPasskeyId(service, base64CredentialId) ==
  LET salt == Hash(BufferFrom(base64CredentialId))
      submitterAddress == ToScAddress(service.submitterPublicKey)
      networkId == NetworkId(service.networkPassphrase)
      contractIdPreimage == ContractIdPreimage(networkId, submitterAddress, salt)
      contractHash == Hash(ToXDR(contractIdPreimage))
  IN EncodeContract(contractHash)

\* Mutant: the stored id is written without the '=' padding.
ExtractCredentialUnpadded(result) ==
  [id |-> result.id, rawId |-> SelectSeq(Btoa(result.rawId), LAMBDA c : c # 64)]

\* extractCredential(result) of the application: what it stores of a passkey.
ExtractCredential(result) == [id |-> result.id, rawId |-> Btoa(result.rawId)]

\* Credential ids handed to the derivation: base64 of raw ids of 0 to 4 bytes.
Base64CredentialIds ==
  {Btoa(r) : r \in RawIds \cup {<<>>, <<129>>, <<129, 131, 0>>, <<255, 255, 255, 255>>}}

\* A call of deriveContractIdFromPasskeyId (synchronous).
DeriveCall(service, base64CredentialId) ==
  /\ op = "idle"
  /\ Len(derived) < MaxDerivations
  /\ op' = "deriveContractIdFromPasskeyId"
  /\ pc' = "done"
  /\ args' = [service |-> service, base64CredentialId |-> base64CredentialId]
  /\ outcome' = Returned(DeriveContractIdFromPasskeyId(service, base64CredentialId))
  /\ derived' = Append(derived,
                  [service |-> service, base64CredentialId |-> base64CredentialId,
                   contractId |-> DeriveContractIdFromPasskeyId(service, base64CredentialId)])
  /\ UNCHANGED <<locals, log, raised, ui>>

Derive == \E service \in Services, id \in Base64CredentialIds : DeriveCall(service, id)

(***************************************************************************)
(* Calls of the unit converter.  A stroop count is written as a decimal    *)
(* literal; an XLM amount of at most 7 decimal places is written as the    *)
(* literal of its 10^7-fold, so 50 XLM is 500000000 and 0.0000001 XLM is 1.*)
(***************************************************************************)
MaxStroops == 40

Zeros(k) == [i \in 1..k |-> 0]

StroopLiterals ==
  {IntDigits(n) : n \in 0..MaxStroops}
    \cup {IntDigits(n) \o Zeros(k) : n \in 1..12, k \in 5..8}
    \cup { <<1, 0, 0, 0, 0, 0, 0, 1>>,
           <<9, 0, 0, 7, 1, 9, 9, 2, 5, 4, 7, 4, 0, 9, 9, 3>>,
           <<9, 2, 2, 3, 3, 7, 2, 0, 3, 6, 8, 5, 4, 7, 7, 5, 8, 0, 7>>,
           <<1, 2, 3, 4, 5, 6, 7, 8, 9, 0, 1, 2, 3, 4, 5, 6, 7, 8, 9, 0, 1, 2, 3, 0, 0, 0, 4, 5, 0, 0>> }

XlmLiterals ==
  {IntDigits(n) : n \in 0..MaxStroops}
    \cup {IntDigits(n) \o Zeros(k) : n \in 1..12, k \in 5..8}
    \cup { <<5, 0, 0, 0, 0, 0, 0, 0, 0>>,
           <<1, 2, 3, 4, 5, 6, 7, 8, 9, 0, 1, 2, 3>>,
           <<9, 2, 2, 3, 3, 7, 2, 0, 3, 6, 8, 5, 4, 7, 7, 0, 0, 0>> }

ConverterOutcome(result) ==
  /\ outcome' = result
  /\ raised' = IF result.kind = "thrown" THEN result.error ELSE NoError
  /\ pc' = "done"
  /\ UNCHANGED <<locals, log, derived, ui>>

\* stroopsToXlm(stroops) of a bigint
StroopsToXlmCall(literal) ==
  /\ op = "idle"
  /\ op' = "stroopsToXlm"
  /\ LET stroops == [tag |-> "bigint", neg |-> FALSE, magnitude |-> FromDecimal(literal)]
     IN /\ args' = [stroops |-> stroops, source |-> "bigint", literal |-> literal]
        /\ ConverterOutcome(stroopsToXlm(stroops))

\* xlmToStroops(xlm) of the Number the literal of an XLM amount denotes
XlmToStroopsCall(literal) ==
  /\ op = "idle"
  /\ op' = "xlmToStroops"
  /\ LET xlm == ToNumber(FALSE, literal, FractionDigits)
     IN /\ args' = [xlm |-> xlm, literal |-> literal]
        /\ ConverterOutcome(Returned(xlmToStroops(xlm)))

\* stroopsToXlm of the Number xlmToStroops has just returned
StroopsToXlmOfResult ==
  /\ op = "xlmToStroops"
  /\ outcome.kind = "returned"
  /\ op' = "stroopsToXlm"
  /\ args' = [stroops |-> outcome.value, source |-> "xlmToStroops", literal |-> args.literal]
  /\ ConverterOutcome(stroopsToXlm(outcome.value))

Convert ==
  \/ \E literal \in StroopLiterals : StroopsToXlmCall(literal)
  \/ \E literal \in XlmLiterals : XlmToStroopsCall(literal)
  \/ StroopsToXlmOfResult

(***************************************************************************)
(* The caller receives the outcome; the service is idle again.             *)
(***************************************************************************)
Complete ==
  /\ op # "idle"
  /\ outcome # Pending
  /\ op' = "idle"
  /\ pc' = "idle"
  /\ args' = NoArgs
  /\ locals' = NoLocals
  /\ log' = <<>>
  /\ raised' = NoError
  /\ outcome' = Pending
  /\ UNCHANGED <<derived, ui>>

Next ==
  \/ CreateWallet
  \/ GetWalletBalanceByContract
  \/ ContractExists
  \/ AddFunds
  \/ Complete

Spec == Init /\ [][Next]_vars

\* The parser applied to every authenticator-data buffer of the input set.
NextExtract ==
  \/ Extract
  \/ Complete

SpecExtract == Init /\ [][NextExtract]_vars

\* Contract ids derived by services of several configurations.
NextDerive ==
  \/ Derive
  \/ Complete

SpecDerive == Init /\ [][NextDerive]_vars

\* The unit converter applied to amounts of every size.
NextConvert ==
  \/ Convert
  \/ Complete

SpecConvert == Init /\ [][NextConvert]_vars

(***************************************************************************)
(* Properties of addFunds.                                                 *)
(***************************************************************************)
Count(ev) == Cardinality({i \in 1..Len(log) : log[i].ev = ev})
EventNames == [i \in 1..Len(log) |-> log[i].ev]
IsPrefix(s, t) == Len(s) <= Len(t) /\ \A i \in 1..Len(s) : s[i] = t[i]
SignEvents == SelectSeq(log, LAMBDA x : x.ev \in {"sign", "signAuthEntries"})
LedgerCalls == {"loadAccount", "transfer", "signAuthEntries",
                "simulateTransaction", "sendTransaction"}

\* The simulation response of the running addFunds lacked transaction data.
SimulationLacksData ==
  /\ op = "addFunds"
  /\ locals.simulationRs # NoResponse
  /\ ~locals.simulationRs.transactionData

\* C1: in an addFunds invocation whose simulation response lacks transaction
\* data the flow fails and sendTransaction is never called, whatever the
\* amount and the target contract id.
C1_NoSubmitAfterFailedSimulation ==
  SimulationLacksData =>
    /\ Count("sendTransaction") = 0
    /\ outcome.kind = "thrown"

C1_Witness ==
  /\ SimulationLacksData
  /\ outcome.kind = "thrown"
  /\ args.contractId \in ContractIds
  /\ Count("simulateTransaction") = 1

\* C2 (as stated): when the simulation fails, no signing operation of any kind
\* has been performed in the invocation at the moment the failure is raised.
C2_Original_NoSigningBeforeFailure ==
  (op = "addFunds" /\ outcome = Thrown("Simulation failed")) => SignEvents = <<>>

\* C2 (amended): when the simulation response lacks transaction data the flow
\* fails with 'Simulation failed' after exactly two signing operations, the
\* auth entries and the provisional (fee 0) transaction that was simulated;
\* neither the re-priced transaction nor a fee-bump has been built or signed.
C2_OnlyProvisionalSigningBeforeFailure ==
  SimulationLacksData =>
    /\ outcome = Thrown("Simulation failed")
    /\ Len(SignEvents) = 2
    /\ SignEvents[1].ev = "signAuthEntries"
    /\ SignEvents[2] = Event("sign", locals.tmpTx)
    /\ locals.tmpTx.fee = 0
    /\ locals.realTransaction = NoTx
    /\ locals.feeBumpTx = NoTx

C2_Witness ==
  /\ SimulationLacksData
  /\ outcome = Thrown("Simulation failed")
  /\ Len(SignEvents) = 2
  /\ locals.tmpTx.signatures = <<SubmitterPublicKey>>

\* C3: the stages of addFunds occur in the fixed order build provisional,
\* sign provisional, simulate, re-price, sign real, build fee-bump, sign
\* fee-bump, submit; the only transaction passed to sendTransaction is the
\* signed fee-bump wrapper of the signed re-priced transaction.
StageOrder ==
  <<"loadAccount", "transfer", "signAuthEntries",
    "build", "sign", "simulateTransaction",
    "build", "sign", "build", "sign", "sendTransaction">>

C3_StageOrderAndSubmission ==
  op = "addFunds" =>
    /\ IsPrefix(EventNames, StageOrder)
    /\ Len(log) >= 6 =>
         /\ log[4].arg.kind = "tx" /\ log[4].arg.signatures = <<>>
         /\ log[4].arg.sorobanData = NoSorobanData
         /\ log[5].arg = [log[4].arg EXCEPT !.signatures = <<SubmitterPublicKey>>]
         /\ log[6].arg = log[5].arg
    /\ Len(log) >= 11 =>
         /\ log[7].arg.kind = "tx" /\ log[7].arg.signatures = <<>>
         /\ log[7].arg.sorobanData # NoSorobanData
         /\ log[7].arg.operation = log[4].arg.operation
         /\ log[8].arg = [log[7].arg EXCEPT !.signatures = <<SubmitterPublicKey>>]
         /\ log[9].arg.kind = "feeBump" /\ log[9].arg.signatures = <<>>
         /\ log[9].arg.inner = log[8].arg
         /\ log[10].arg = [log[9].arg EXCEPT !.signatures = <<SubmitterPublicKey>>]
         /\ log[11].arg = log[10].arg
    /\ \A i \in 1..Len(log) :
         log[i].ev = "sendTransaction" =>
           /\ log[i].arg.kind = "feeBump"
           /\ log[i].arg.signatures # <<>>
           /\ log[i].arg.inner = locals.realTransaction
           /\ log[i].arg.inner.signatures # <<>>
           /\ log[i].arg # locals.tmpTx
           /\ log[i].arg # locals.realTransaction

C3_Witness ==
  /\ op = "addFunds"
  /\ outcome.kind = "returned"
  /\ Len(log) = 11
  /\ log[11].ev = "sendTransaction"

\* C4: in every successful transfer the provisional transaction carries fee 0,
\* the re-priced transaction carries exactly the simulated resource fee and
\* the simulated transaction data, and the fee-bump wrapper carries the same
\* fee and is created and signed by the submitter key, like the inner one.
C4_FeesOfSuccessfulTransfer ==
  (op = "addFunds" /\ outcome.kind = "returned") =>
    /\ locals.tmpTx.fee = 0
    /\ locals.simulationRs.transactionData
    /\ locals.realTransaction.fee = locals.simulationRs.resourceFee
    /\ locals.realTransaction.sorobanData = [resourceFee |-> locals.simulationRs.resourceFee]
    /\ locals.realTransaction.signatures = <<SubmitterPublicKey>>
    /\ locals.feeBumpTx.fee = locals.simulationRs.resourceFee
    /\ locals.feeBumpTx.feeSource = SubmitterPublicKey
    /\ locals.feeBumpTx.signatures = <<SubmitterPublicKey>>
    /\ locals.feeBumpTx.inner = locals.realTransaction

C4_Witness ==
  /\ op = "addFunds"
  /\ outcome.kind = "returned"
  /\ locals.simulationRs.resourceFee > 0
  /\ locals.feeBumpTx.fee = locals.simulationRs.resourceFee

\* C5: no automatic retry: in one addFunds invocation every ledger call
\* (account load, simulateTransaction, sendTransaction, ...) is made at most
\* once, the call that failed is the last one made, and the failure is what
\* the caller gets.
C5_NoRetry ==
  op = "addFunds" =>
    /\ \A ev \in LedgerCalls : Count(ev) <= 1
    /\ raised # NoError =>
         /\ outcome = Thrown(raised)
         /\ log # <<>> => log[Len(log)].ev = pc
         /\ log = <<>> => pc = "arguments"
    /\ outcome.kind = "thrown" => raised # NoError

C5_Witness ==
  /\ op = "addFunds"
  /\ pc = "sendTransaction"
  /\ outcome.kind = "thrown"
  /\ outcome.error \in CollaboratorErrors
  /\ Count("simulateTransaction") = 1

\* C6 (as stated): every failure of the transfer flow is reported with the
\* name of its stage, so that a failure while simulating, signing or
\* submitting can be told apart from the reported error alone.
StageLabel(stage) ==
  CASE stage = "simulateTransaction" -> "Simulation failed"
    [] stage = "signAuthEntries" -> "Signing failed"
    [] stage = "sendTransaction" -> "Submission failed"
    [] OTHER -> "unlabelled"

CreateWalletOrder ==
  <<"passkeyCreator", "deploy", "deployResponse.sign", "deployResponse.send">>

\* The number of steps that may have been started when the invocation is at pc.
CreateWalletStep(at) ==
  CASE at = "passkeyCreator" -> 1
    [] at = "deploySmartWallet" -> 2
    [] at = "sign" -> 3
    [] OTHER -> 4

\* C7: createWallet runs passkey creation, the deployment call (timeout of
\* 60 seconds, salt = hash of the base64 credential id of the passkey),
\* signing with the submitter keypair and sending in that order, each at
\* most once; a failure of any step reaches the caller as that failure, and
\* no later step has run.
C7_CreateWalletOrder ==
  op = "createWallet" =>
    /\ IsPrefix(EventNames, CreateWalletOrder)
    /\ Len(log) <= CreateWalletStep(pc)
    /\ \A i \in 1..Len(log) :
         /\ log[i].ev = "deploy" =>
              /\ log[i].arg.options.timeoutInSeconds = 60
              /\ log[i].arg.options.salt = Hash(BufferFrom(Btoa(locals.passkey.rawId)))
              /\ log[i].arg.options.publicKey = SubmitterPublicKey
         /\ log[i].ev \in {"deployResponse.sign", "deployResponse.send"} =>
              log[i].arg.signer = SubmitterPublicKey
    /\ raised # NoError => outcome = Thrown(raised)
    /\ outcome.kind = "thrown" => raised # NoError
    /\ outcome.kind = "returned" => EventNames = CreateWalletOrder

C7_Witness ==
  /\ op = "createWallet"
  /\ pc = "sign"
  /\ outcome = Thrown("HostError")
  /\ EventNames = SubSeq(CreateWalletOrder, 1, 3)
  /\ Len(locals.passkey.rawId) = 2

EntryPoints == {"createWallet", "addFunds", "getWalletBalanceByContract", "contractExists"}

\* C8 (as stated): whatever fails, an entry point of the wallet service
\* never ends with an exception propagated to its caller.
C8_Original_NoPropagatedException ==
  op \in EntryPoints => outcome.kind # "thrown"

\* C8 (amended): only contractExists turns a failure into a result (false);
\* createWallet, addFunds and getWalletBalanceByContract end every failure
\* with that very error propagated to their caller.
C8_OnlyContractExistsAbsorbsFailure ==
  /\ op = "contractExists" =>
       /\ outcome.kind # "thrown"
       /\ raised # NoError => outcome = Returned(FALSE)
  /\ (op \in EntryPoints \ {"contractExists"} /\ raised # NoError) =>
       outcome = Thrown(raised)

C8_Witness ==
  /\ op = "contractExists"
  /\ pc = "getContractData"
  /\ raised = "NetworkError"
  /\ outcome = Returned(FALSE)

(***************************************************************************)
(* Properties of extractRawPublicKeyFromAuthData.                          *)
(***************************************************************************)
FixedPrefixLength ==
  RP_ID_HASH_LENGTH + FLAGS_LENGTH + SIGNATURE_COUNTER_LENGTH + AAGUID_LENGTH
    + CRED_ID_LENGTH_BYTES

InBounds(bytes) == 0..(Len(bytes) - 1)

\* The credential-id length declared at byte offsets 53..54, big-endian.
DeclaredCredIdLen(bytes) ==
  bytes[FixedPrefixLength - 1] * 256 + bytes[FixedPrefixLength]

Extracting == op = "extractRawPublicKeyFromAuthData"

\* The buffer ends inside the fixed 55-byte prefix.
TruncatedPrefix == Extracting /\ Len(args.authDataBytes) < FixedPrefixLength

\* The buffer holds the prefix but ends before the declared credential id does.
TruncatedCredentialId ==
  /\ Extracting
  /\ Len(args.authDataBytes) >= FixedPrefixLength
  /\ Len(args.authDataBytes) < FixedPrefixLength + DeclaredCredIdLen(args.authDataBytes)

DecodedKey == DecodeFirstSync(locals.coseKeyBytes)

HasCoseMap ==
  /\ Extracting
  /\ locals.coseKeyBytes # <<>>
  /\ DecodedKey.ok
  /\ DecodedKey.item.type = "map"

Field(label) == MapGet(DecodedKey.item, label)

IsBytes(item) == item.type = "bytes"
EmptyBytes(item) == IsBytes(item) /\ item.b = <<>>

\* C11: for a buffer of at least 55 + L bytes, L the big-endian 16-bit value
\* at offsets 53..54, the COSE key region is exactly the bytes from offset
\* 55 + L to the end of the buffer.
C11_CoseKeyRegion ==
  (/\ Extracting
   /\ Len(args.authDataBytes) >= FixedPrefixLength
   /\ Len(args.authDataBytes) >= FixedPrefixLength + DeclaredCredIdLen(args.authDataBytes))
    => locals.coseKeyBytes =
         SubSeq(args.authDataBytes,
                FixedPrefixLength + DeclaredCredIdLen(args.authDataBytes) + 1,
                Len(args.authDataBytes))

\* A credential id of the largest length, and extension data behind the key.
C11_Witness ==
  /\ Extracting
  /\ Len(args.authDataBytes) >= FixedPrefixLength
  /\ DeclaredCredIdLen(args.authDataBytes) = MaxCredIdLen
  /\ outcome.kind = "returned"
  /\ DecodedKey.next <= Len(locals.coseKeyBytes)

\* C12: for a COSE map with key type 2 and algorithm -7 whose x and y are
\* byte strings of the coordinate width, extraction returns 0x04, x, y, in
\* that order, 1 + 2 * width bytes in all.
C12_ES256RawKey ==
  (/\ HasCoseMap
   /\ Field(1) = IntItem(2) /\ Field(3) = IntItem(-7)
   /\ IsBytes(Field(-2)) /\ Len(Field(-2).b) = CoordinateWidth
   /\ IsBytes(Field(-3)) /\ Len(Field(-3).b) = CoordinateWidth)
    => /\ outcome = Returned(<<4>> \o Field(-2).b \o Field(-3).b)
       /\ Len(outcome.value) = 1 + 2 * CoordinateWidth

C12_Witness ==
  /\ HasCoseMap
  /\ Field(1) = IntItem(2) /\ Field(3) = IntItem(-7)
  /\ IsBytes(Field(-2)) /\ Len(Field(-2).b) = CoordinateWidth
  /\ IsBytes(Field(-3)) /\ Len(Field(-3).b) = CoordinateWidth
  /\ outcome.kind = "returned"
  /\ outcome.value[2] = 48

SupportedPairs == {<<IntItem(2), IntItem(-7)>>, <<IntItem(3), IntItem(-257)>>}

\* C13: a COSE map whose key type and algorithm are both present and are
\* neither (2, -7) nor (3, -257) fails as unsupported and yields no key.
C13_UnsupportedPair ==
  (/\ HasCoseMap
   /\ Field(1) # AbsentItem /\ Field(3) # AbsentItem
   /\ <<Field(1), Field(3)>> \notin SupportedPairs)
    => outcome = Thrown("Unsupported COSE key")

\* The mixed pair (2, -257), with the x and y of an EC2 key.
C13_Witness ==
  /\ HasCoseMap
  /\ Field(1) = IntItem(2) /\ Field(3) = IntItem(-257)
  /\ IsBytes(Field(-2)) /\ IsBytes(Field(-3))
  /\ outcome.kind = "thrown"

MalformedKeyErrors ==
  {"Malformed ES256 COSE key: missing x or y",
   "Malformed RS256 COSE key: missing n or e",
   "Invalid COSE key structure"}

LabelAbsent == HasCoseMap /\ (Field(1) = AbsentItem \/ Field(3) = AbsentItem)

\* C14 (as stated): a COSE map without the key-type label or without the
\* algorithm label fails as a malformed key, not as an unsupported one.
C14_Original_AbsentLabelMalformed ==
  LabelAbsent =>
    /\ outcome.kind = "thrown"
    /\ outcome.error \in MalformedKeyErrors

\* C14 (amended): a COSE map without the key-type label or without the
\* algorithm label fails with the error of an unsupported key, the one a map
\* with an unsupported pair fails with; no key is returned.
C14_AbsentLabelUnsupported ==
  LabelAbsent => outcome = Thrown("Unsupported COSE key")

C14_Witness ==
  /\ LabelAbsent
  /\ Field(1) = IntItem(2)
  /\ Field(3) = AbsentItem
  /\ outcome.kind = "thrown"

\* C15: a COSE map with pair (2, -7) fails as malformed whenever x or y is
\* absent or an empty byte string, and yields a key only when both are
\* present and non-empty.
C15_ES256RequiresCoordinates ==
  (HasCoseMap /\ Field(1) = IntItem(2) /\ Field(3) = IntItem(-7)) =>
    LET unusable(item) == item = AbsentItem \/ EmptyBytes(item)
    IN /\ (unusable(Field(-2)) \/ unusable(Field(-3)))
            => outcome = Thrown("Malformed ES256 COSE key: missing x or y")
       /\ outcome.kind = "returned"
            => ~unusable(Field(-2)) /\ ~unusable(Field(-3))

\* C16: a COSE map with pair (3, -257) fails as malformed whenever the
\* modulus or the exponent is absent or an empty byte string, and otherwise
\* returns the modulus followed by the exponent.
C16_RS256RequiresModulusAndExponent ==
  (HasCoseMap /\ Field(1) = IntItem(3) /\ Field(3) = IntItem(-257)) =>
    LET unusable(item) == item = AbsentItem \/ EmptyBytes(item)
    IN IF unusable(Field(-1)) \/ unusable(Field(-2))
         THEN outcome = Thrown("Malformed RS256 COSE key: missing n or e")
         ELSE outcome = Returned(Field(-1).b \o Field(-2).b)

(***************************************************************************)
(* Properties of the contract-id derivation.                               *)
(***************************************************************************)
\* The number of the three inputs in which two derivations differ.
InputsChanged(a, b) ==
  Cardinality({i \in 1..3 :
     <<a.base64CredentialId, a.service.submitterPublicKey, a.service.networkPassphrase>>[i]
       # <<b.base64CredentialId, b.service.submitterPublicKey, b.service.networkPassphrase>>[i]})

\* C17: two derivations with the same credential id, deployer address and
\* network passphrase give the same contract id, and two derivations that
\* differ in exactly one of the three give different contract ids.
C17_DeterministicAndInputSensitive ==
  \A i, j \in 1..Len(derived) :
    /\ InputsChanged(derived[i], derived[j]) = 0
         => derived[i].contractId = derived[j].contractId
    /\ InputsChanged(derived[i], derived[j]) = 1
         => derived[i].contractId # derived[j].contractId

\* Two derivations that differ in the network passphrase only.
C17_Witness ==
  /\ Len(derived) >= 2
  /\ InputsChanged(derived[1], derived[2]) = 1
  /\ derived[1].service.networkPassphrase # derived[2].service.networkPassphrase
  /\ derived[1].base64CredentialId # <<>>

\* The contract id the ledger gives a contract deployed with these options:
\* the id of the preimage made of the network, the deployer and the salt.
DeployedContractId(options) ==
  EncodeContract(Hash(ToXDR(ContractIdPreimage(NetworkId(options.networkPassphrase),
                                              ToScAddress(options.publicKey),
                                              options.salt))))

\* C18: the contract id derived from the stored credential record of a
\* passkey is the id its deployment was made under: the salt of the
\* deployment is the hash of the very string that is stored as rawId, and
\* deployer address and network passphrase are those of the derivation.
C18_DerivedIdIsDeployedId ==
  op = "createWallet" =>
    \A i \in 1..Len(log) :
      log[i].ev = "deploy" =>
        LET options == log[i].arg.options
            stored == ExtractCredential(locals.passkey)
        IN /\ options.salt = Hash(BufferFrom(stored.rawId))
           /\ options.publicKey = DemoService.submitterPublicKey
           /\ options.networkPassphrase = DemoService.networkPassphrase
           /\ DeployedContractId(options)
                = DeriveContractIdFromPasskeyId(DemoService, stored.rawId)

\* A wallet deployed for a raw id whose base64 form ends with padding.
C18_Witness ==
  /\ op = "createWallet"
  /\ outcome.kind = "returned"
  /\ Len(log) = 4
  /\ log[2].ev = "deploy"
  /\ ExtractCredential(locals.passkey).rawId[4] = 64

(***************************************************************************)
(* Properties of the unit converter.                                       *)
(***************************************************************************)
IsDigit(c) == \E d \in 1..10 : DigitChars[d] = c
DigitOf(c) == (CHOOSE d \in 1..10 : DigitChars[d] = c) - 1

Dots(str) == {i \in 1..Len(str) : str[i] = "."}
WholePart(str) ==
  IF Dots(str) = {} THEN str ELSE SubSeq(str, 1, (CHOOSE i \in Dots(str) : TRUE) - 1)
FractionPart(str) ==
  IF Dots(str) = {} THEN <<>> ELSE SubSeq(str, (CHOOSE i \in Dots(str) : TRUE) + 1, Len(str))

\* A decimal string in shortest form: a whole part without a leading zero
\* and, only if it is not zero, '.' and a fraction of at most 7 digits
\* that does not end in 0.
ShortestForm(str) ==
  /\ Cardinality(Dots(str)) <= 1
  /\ \A i \in 1..Len(str) : i \in Dots(str) \/ IsDigit(str[i])
  /\ WholePart(str) # <<>>
  /\ Len(WholePart(str)) > 1 => WholePart(str)[1] # "0"
  /\ Len(FractionPart(str)) <= 7
  /\ Dots(str) # {} =>
       FractionPart(str) # <<>> /\ FractionPart(str)[Len(FractionPart(str))] # "0"

\* The number of stroops a decimal string of XLM denotes: its digits, the
\* fraction filled up to 7 places, read as one natural.
StroopsDenoted(str) ==
  FromDecimal([i \in 1..Len(WholePart(str)) |-> DigitOf(WholePart(str)[i])]
                \o [i \in 1..Len(FractionPart(str)) |-> DigitOf(FractionPart(str)[i])]
                \o Zeros(7 - Len(FractionPart(str))))

\* C19: stroopsToXlm(s) of a non-negative s is the decimal string of
\* floor(s / 10^7), followed, only when s mod 10^7 is not zero, by '.' and
\* the remainder in 7 zero-padded digits without its trailing zeros; the
\* string denotes s exactly, however large s is.
C19_StroopsToXlmExact ==
  (op = "stroopsToXlm" /\ args.source = "bigint") =>
    /\ outcome.kind = "returned"
    /\ ShortestForm(outcome.value)
    /\ StroopsDenoted(outcome.value) = args.stroops.magnitude
    /\ args.literal = <<1, 0, 0, 0, 0, 0, 0, 0, 0>> => outcome.value = <<"1", "0">>
    /\ args.literal = <<1, 0, 0, 0, 0, 0, 0, 1>>
         => outcome.value = <<"1", ".", "0", "0", "0", "0", "0", "0", "1">>
    /\ args.literal = <<0>> => outcome.value = <<"0">>

\* A count of 30 digits, with zeros inside and at the end of its fraction.
C19_Witness ==
  /\ op = "stroopsToXlm"
  /\ args.source = "bigint"
  /\ Len(args.literal) = 30
  /\ outcome.kind = "returned"
  /\ FractionPart(outcome.value) = <<"0", "0", "0", "4", "5">>

\* C20: for an XLM amount x of at most 7 decimal places,
\* stroopsToXlm(xlmToStroops(x)) denotes x.
C20_RoundTrip ==
  (op = "stroopsToXlm" /\ args.source = "xlmToStroops") =>
    /\ outcome.kind = "returned"
    /\ StroopsDenoted(outcome.value) = FromDecimal(args.literal)

(***************************************************************************)
(* Properties of the amount handed to addFunds.                           *)
(***************************************************************************)
\* A number that is finite and greater than zero.
PositiveFinite(x) == x.tag = "number" /\ ~x.neg /\ x.m # <<>>

AmountGiven ==
  /\ op = "addFunds"
  /\ args.contractId # Undefined
  /\ args.amount # UndefinedAmount

\* C21: an addFunds call whose amount is zero, negative, NaN or infinite
\* fails with InvalidAmount in the unit conversion, so that no transfer is
\* built with such an amount.
C21_NonPositiveAmountRejected ==
  (AmountGiven /\ ~PositiveFinite(args.amount))
    => /\ outcome = Thrown("InvalidAmount")
       /\ Count("transfer") = 0

(***************************************************************************)
(* Properties of contractExists.                                          *)
(***************************************************************************)
\* C26: the existence check tells a failed lookup from an absent contract:
\* a lookup that fails for a network error is never reported to the caller
\* as the contract being absent (the result false).
C26_NetworkErrorNotReportedAbsent ==
  (op = "contractExists" /\ raised = "NetworkError")
    => ~(outcome.kind = "returned" /\ outcome.value = FALSE)

(***************************************************************************)
(* The handlers of the application.  main.ts binds createSmartWallet,      *)
(* signIn, addFixedFundForSignedInContract and reset to buttons; each      *)
(* click starts an invocation, and invocations interleave at their awaits. *)
(***************************************************************************)
\* The variables of the service driven by a single caller.
svc == <<op, pc, args, locals, log, raised, outcome, derived>>

\* What the passkey plugin hands back, converted by utils.ts: passkeys of
\* the shortest and of the longest raw id, a registration with an ES256
\* attestation or with one that does not decode.
DemoRawIds == {CredentialIdBytes(1), CredentialIdBytes(MaxCredIdLen)}

RegistrationResults ==
  {p \in Passkeys :
     /\ p.rawId \in DemoRawIds
     /\ p.response.attestationObject.authData \in
          {<<>>, AuthData(MaxCredIdLen, CredentialIdBytes(MaxCredIdLen), EncodeMap(ES256Key))}}

AuthenticationResults == {[id |-> "credential", rawId |-> r] : r \in DemoRawIds}

\* What a visit may find under the storage key: nothing, a text that does
\* not parse, or the record an earlier visit stored.
StoredItems ==
  {NoItem, Item(CorruptText)}
    \cup {Item(JsonStringify(ExtractCredential(r))) : r \in AuthenticationResults}

InitUI ==
  /\ op = "idle"
  /\ pc = "idle"
  /\ args = NoArgs
  /\ locals = NoLocals
  /\ log = <<>>
  /\ raised = NoError
  /\ outcome = Pending
  /\ derived = <<>>
  /\ tasks = [c \in Clicks |-> NoTask]
  /\ localStorage \in [{CREDENTIAL_STORAGE_KEY} -> StoredItems]
  /\ document = PageLoaded
  /\ stellarService = <<>>
  /\ accountSequence = 0

\* A click starts the next invocation.
Startable(t) ==
  /\ tasks[t].handler = "none"
  /\ \A u \in Clicks : u < t => tasks[u].handler # "none"

Suspended(t, handler, at) == tasks[t].handler = handler /\ tasks[t].pc = at

Started(handler, events, at) ==
  [NoTask EXCEPT !.handler = handler, !.trace = events, !.pc = at]

Traced(task, events, at) == [task EXCEPT !.trace = @ \o events, !.pc = at]

\* The handler's promise is settled (once).
Settled(task) ==
  [task EXCEPT !.outcome = IF @ = Pending THEN Returned(Undefined) ELSE @]

Finished(task) == [Settled(task) EXCEPT !.pc = "done"]

\* Dialog.alert({title, message})
Alert(title, message) == Event("alert", [title |-> title, message |-> message])

\* Mutant: the catch block logs the error and shows nothing.
CaughtSilently(prefix, e) == <<Event("console.error", <<prefix, e>>)>>

\* catch (error) { console.error(...); await Dialog.alert({title: 'Error', ...}) }
Caught(prefix, e) ==
  <<Event("console.error", <<prefix, e>>), Alert("Error", <<prefix, e>>)>>

\* getSmartWalletSdk(): the singleton, constructed when there is none.
GetSmartWalletSdk(service) == IF service = <<>> THEN <<DemoService>> ELSE service

\* getStoredCredential(): the stored record, or null; a text that does not
\* parse is removed.
GetStoredCredential(storage) ==
  LET stored == storage[CREDENTIAL_STORAGE_KEY]
  IN IF ~stored.present \/ Len(stored.text) = 0
       THEN [credential |-> <<>>, localStorage |-> storage]
     ELSE LET parsed == JsonParse(stored.text)
          IN IF parsed.kind = "thrown"
               THEN [credential |-> <<>>,
                     localStorage |-> [storage EXCEPT ![CREDENTIAL_STORAGE_KEY] = NoItem]]
               ELSE [credential |-> <<parsed.value>>, localStorage |-> storage]

\* `${balance}` of the value getWalletBalance returned without a balance.
UndefinedText == <<"u", "n", "d", "e", "f", "i", "n", "e", "d">>

\* refreshBalance() up to its await: nothing without a stored credential,
\* else getWalletBalance(credential) up to `await getWalletBalanceByContract`.
RefreshBalance(t, task) ==
  LET stored == GetStoredCredential(localStorage)
      read == Event("getStoredCredential",
                    [item |-> localStorage[CREDENTIAL_STORAGE_KEY],
                     credential |-> stored.credential])
      called == Traced(task, <<Event("refreshBalance", Undefined), read>>, task.pc)
  IN /\ localStorage' = stored.localStorage
     /\ IF stored.credential = <<>>
          THEN /\ tasks' = [tasks EXCEPT ![t] = Finished(called)]
               /\ UNCHANGED stellarService
          ELSE LET contractId == DeriveContractIdFromPasskeyId(DemoService,
                                                               stored.credential[1].rawId)
               IN /\ stellarService' = GetSmartWalletSdk(stellarService)
                  /\ tasks' = [tasks EXCEPT ![t] =
                       Traced(called, <<Event("balance", [id |-> contractId])>>, "balance")]

\* postLoginActions(contractId), which the handlers call without awaiting
\* it: the panel is shown and the balance requested, then the handler ends.
PostLoginActions(t, task, contractId) ==
  /\ document' = [document EXCEPT
                    !.hidden = (@ \ {"contract-info"}) \cup {"create-smart-wallet-btn"},
                    !.contractText = <<contractId>>]
  /\ RefreshBalance(t, Settled(Traced(task, <<Event("postLoginActions", contractId)>>, task.pc)))

\* sacClient.balance threw: getWalletBalanceByContract rethrows,
\* getWalletBalance catches and alerts.
RefreshBalanceFails(t, e) ==
  /\ tasks[t].pc = "balance"
  /\ LET thrown == GetWalletBalanceCatch(e)
     IN tasks' = [tasks EXCEPT ![t] =
          Traced(@, <<Event("failed", [call |-> "balance", error |-> e])>>
                      \o Caught("Failed to get wallet balance", thrown.error),
                 "alertBalance")]
  /\ UNCHANGED <<localStorage, document, stellarService, accountSequence>>
  /\ UNCHANGED svc

\* sacClient.balance returned: the balance text is written and flashed.
RefreshBalanceReturns(t, balance) ==
  /\ tasks[t].pc = "balance"
  /\ LET xlm == stroopsToXlm(balance)
     IN IF xlm.kind = "thrown"
          THEN /\ tasks' = [tasks EXCEPT ![t] =
                    Traced(@, Caught("Failed to get wallet balance", xlm.error), "alertBalance")]
               /\ UNCHANGED document
          ELSE /\ tasks' = [tasks EXCEPT ![t] =
                    Finished(Traced(@, <<Event("balanceText", xlm.value)>>, "done"))]
               /\ document' = [document EXCEPT !.balanceText = <<xlm.value>>]
  /\ UNCHANGED <<localStorage, stellarService, accountSequence>>
  /\ UNCHANGED svc

\* The error alert of getWalletBalance is dismissed: it returns undefined,
\* which refreshBalance writes as the balance.
RefreshBalanceAlertDismissed(t) ==
  /\ tasks[t].pc = "alertBalance"
  /\ tasks' = [tasks EXCEPT ![t] =
       Finished(Traced(@, <<Event("balanceText", UndefinedText)>>, "done"))]
  /\ document' = [document EXCEPT !.balanceText = <<UndefinedText>>]
  /\ UNCHANGED <<localStorage, stellarService, accountSequence>>
  /\ UNCHANGED svc

\* The last alert of a handler is dismissed: the handler returns.
AlertDismissed(t) ==
  /\ tasks[t].pc = "alert"
  /\ tasks' = [tasks EXCEPT ![t] = Finished(@)]
  /\ UNCHANGED <<localStorage, document, stellarService, accountSequence>>
  /\ UNCHANGED svc

(***************************************************************************)
(* reset()                                                                 *)
(***************************************************************************)
Reset ==
  /\ localStorage' = [localStorage EXCEPT ![CREDENTIAL_STORAGE_KEY] = NoItem]
  /\ stellarService' = <<>>
  /\ document' = [document EXCEPT
                    !.hidden = (@ \cup {"contract-info"}) \ {"create-smart-wallet-btn"}]
  /\ UNCHANGED <<tasks, accountSequence>>
  /\ UNCHANGED svc

(***************************************************************************)
(* signIn()                                                                *)
(***************************************************************************)
\* Mutant: the stored record is never used, signIn always authenticates.
SignInSkipsStored(storedCredentialStr) == FALSE

\* if (storedCredentialStr): a stored, non-empty text
SignInUsesStored(storedCredentialStr) ==
  storedCredentialStr.present /\ Len(storedCredentialStr.text) > 0

\* Mutant: the result of the existence check is not looked at.
SignInProceedsAlways(exists) == TRUE

\* if (!exists) { alert; return; }
SignInProceeds(exists) == exists

\* The sdk, the derived contract id, then `await contractExists(contractId)`.
SignInCheck(t, task) ==
  LET contractId == DeriveContractIdFromPasskeyId(DemoService, task.credential.rawId)
  IN /\ stellarService' = GetSmartWalletSdk(stellarService)
     /\ tasks' = [tasks EXCEPT ![t] =
          Traced(task, <<Event("getContractData", contractId)>>, "contractExists")]

\* Call: the stored text is read; parsed when there is one, else
\* `await authenticate(options)`.
SignInStart(t) ==
  /\ Startable(t)
  /\ LET storedCredentialStr == localStorage[CREDENTIAL_STORAGE_KEY]
         task == Started("signIn", <<Event("getItem", storedCredentialStr)>>, "start")
     IN IF SignInUsesStored(storedCredentialStr)
          THEN LET parsed == JsonParse(storedCredentialStr.text)
               IN IF parsed.kind = "thrown"
                    THEN /\ tasks' = [tasks EXCEPT ![t] =
                              Traced(task, Caught("Failed to sign in", parsed.error), "alert")]
                         /\ UNCHANGED stellarService
                    ELSE SignInCheck(t, [task EXCEPT !.credential = parsed.value])
          ELSE /\ tasks' = [tasks EXCEPT ![t] =
                    Traced(task, <<Event("authenticate", "options")>>, "authenticate")]
               /\ UNCHANGED stellarService
  /\ UNCHANGED <<localStorage, document, accountSequence>>
  /\ UNCHANGED svc

\* PasskeyPlugin.authenticate threw: utils.authenticate rethrows, signIn
\* catches and alerts.
SignInAuthenticateFails(t, e) ==
  /\ Suspended(t, "signIn", "authenticate")
  /\ tasks' = [tasks EXCEPT ![t] =
       Traced(@, <<Event("failed", [call |-> "authenticate", error |-> e])>>
                   \o Caught("Failed to sign in", e), "alert")]
  /\ UNCHANGED <<localStorage, document, stellarService, accountSequence>>
  /\ UNCHANGED svc

\* The passkey was presented (utils.authenticate resolves to a result or
\* rejects, never to a falsy value): its credential is stored, then checked.
SignInAuthenticateReturns(t, authResult) ==
  /\ Suspended(t, "signIn", "authenticate")
  /\ LET credential == ExtractCredential(authResult)
         text == JsonStringify(credential)
     IN /\ localStorage' = [localStorage EXCEPT ![CREDENTIAL_STORAGE_KEY] = Item(text)]
        /\ SignInCheck(t, [Traced(tasks[t], <<Event("authenticated", authResult),
                                              Event("setItem", text)>>, "authenticate")
                             EXCEPT !.credential = credential])
  /\ UNCHANGED <<document, accountSequence>>
  /\ UNCHANGED svc

\* contractExists answered.
SignInExists(t, task, result) ==
  IF result.kind = "thrown"
    THEN /\ tasks' = [tasks EXCEPT ![t] =
              Traced(task, Caught("Failed to sign in", result.error), "alert")]
         /\ UNCHANGED <<localStorage, document, stellarService>>
  ELSE LET answered == Traced(task, <<Event("exists", result.value)>>, task.pc)
       IN IF SignInProceeds(result.value)
            THEN PostLoginActions(t, answered,
                   DeriveContractIdFromPasskeyId(DemoService, task.credential.rawId))
            ELSE /\ tasks' = [tasks EXCEPT ![t] =
                      Traced(answered, <<Alert("", <<"No contract found for this passkey. Please create a smart wallet first.">>)>>,
                             "alert")]
                 /\ UNCHANGED <<localStorage, document, stellarService>>

\* rpcClient.getContractData threw: contractExists answers from its catch.
SignInExistsLookupFails(t, e) ==
  /\ Suspended(t, "signIn", "contractExists")
  /\ SignInExists(t, Traced(tasks[t], <<Event("failed", [call |-> "getContractData", error |-> e])>>,
                            "contractExists"),
                  ContractExistsCatch(e))
  /\ UNCHANGED accountSequence
  /\ UNCHANGED svc

\* rpcClient.getContractData returned: contractExists answers true.
SignInExistsLookupReturns(t) ==
  /\ Suspended(t, "signIn", "contractExists")
  /\ SignInExists(t, tasks[t], Returned(TRUE))
  /\ UNCHANGED accountSequence
  /\ UNCHANGED svc

SignIn(t) ==
  \/ SignInStart(t)
  \/ \E e \in {"NetworkError"} : SignInAuthenticateFails(t, e)
  \/ \E r \in AuthenticationResults : SignInAuthenticateReturns(t, r)
  \/ \E e \in {"NetworkError", "NotFound"} : SignInExistsLookupFails(t, e)
  \/ SignInExistsLookupReturns(t)

(***************************************************************************)
(* createSmartWallet()                                                     *)
(***************************************************************************)
\* Call: the sdk, then assembleCreatePasskeyOptions: `await Dialog.prompt`.
CreateSmartWalletStart(t) ==
  /\ Startable(t)
  /\ stellarService' = GetSmartWalletSdk(stellarService)
  /\ tasks' = [tasks EXCEPT ![t] =
       Started("createSmartWallet", <<Event("prompt", "Passkey Name")>>, "prompt")]
  /\ UNCHANGED <<localStorage, document, accountSequence>>
  /\ UNCHANGED svc

PromptAnswers == {[value |-> "name", cancelled |-> FALSE], [value |-> "", cancelled |-> TRUE]}

\* The prompt is answered: without a name the options cannot be assembled;
\* with one, createWallet calls the passkey creator: `await createPasskey`.
CreateSmartWalletPromptReturns(t, answer) ==
  /\ Suspended(t, "createSmartWallet", "prompt")
  /\ IF answer.cancelled \/ answer.value = ""
       THEN tasks' = [tasks EXCEPT ![t] =
              Traced(@, Caught("Failed to create smart wallet", "Passkey name is required"),
                     "alert")]
       ELSE tasks' = [tasks EXCEPT ![t] =
              Traced(@, <<Event("createPasskey", "options")>>, "createPasskey")]
  /\ UNCHANGED <<localStorage, document, stellarService, accountSequence>>
  /\ UNCHANGED svc

\* An awaited call of createWallet threw: createWallet rethrows,
\* createSmartWallet catches and alerts.
CreateSmartWalletCallFails(t, e) ==
  /\ tasks[t].handler = "createSmartWallet"
  /\ tasks[t].pc \in {"createPasskey", "deploy", "sign", "send"}
  /\ LET thrown == CreateWalletCatch(e)
     IN tasks' = [tasks EXCEPT ![t] =
          Traced(@, <<Event("failed", [call |-> tasks[t].pc, error |-> e])>>
                      \o Caught("Failed to create smart wallet", thrown.error), "alert")]
  /\ UNCHANGED <<localStorage, document, stellarService, accountSequence>>
  /\ UNCHANGED svc

\* The passkey was created: the callback stores its credential and returns
\* it; createWallet goes on to `await deploySmartWallet(passkey)`.
CreateSmartWalletPasskeyReturns(t, registrationResult) ==
  /\ Suspended(t, "createSmartWallet", "createPasskey")
  /\ LET credential == ExtractCredential(registrationResult)
         text == JsonStringify(credential)
         stored == [Traced(tasks[t], <<Event("setItem", text)>>, "deploy")
                      EXCEPT !.credential = credential,
                             !.locals.passkey = registrationResult]
         deploy == DeploySmartWallet(registrationResult)
     IN /\ localStorage' = [localStorage EXCEPT ![CREDENTIAL_STORAGE_KEY] = Item(text)]
        /\ IF deploy.threw
             THEN tasks' = [tasks EXCEPT ![t] =
                    Traced(stored, <<Event("failed", [call |-> "deploySmartWallet",
                                                      error |-> deploy.error])>>
                                     \o Caught("Failed to create smart wallet",
                                               CreateWalletCatch(deploy.error).error),
                           "alert")]
             ELSE tasks' = [tasks EXCEPT ![t] =
                    Traced(stored, <<Event("deploy", [signer |-> deploy.signer,
                                                      options |-> deploy.options])>>,
                           "deploy")]
  /\ UNCHANGED <<document, stellarService, accountSequence>>
  /\ UNCHANGED svc

\* Client.deploy returned; `await deployResponse.sign(...)`.
CreateSmartWalletDeployReturns(t) ==
  /\ Suspended(t, "createSmartWallet", "deploy")
  /\ LET task == tasks[t]
         call == task.trace[Len(task.trace)].arg
     IN tasks' = [tasks EXCEPT ![t] =
          [Traced(task, <<Event("deployResponse.sign", SubmitterPublicKey)>>, "sign")
             EXCEPT !.locals.deployResponse =
                      [kind |-> "deployResponse", call |-> call,
                       signatures |-> <<>>, sent |-> FALSE]]]
  /\ UNCHANGED <<localStorage, document, stellarService, accountSequence>>
  /\ UNCHANGED svc

\* deployResponse.sign returned; `await deployResponse.send()`.
CreateSmartWalletSignReturns(t) ==
  /\ Suspended(t, "createSmartWallet", "sign")
  /\ tasks' = [tasks EXCEPT ![t] =
       [Traced(@, <<Event("deployResponse.send", SubmitterPublicKey)>>, "send")
          EXCEPT !.locals.deployResponse.signatures = <<SubmitterPublicKey>>]]
  /\ UNCHANGED <<localStorage, document, stellarService, accountSequence>>
  /\ UNCHANGED svc

\* deployResponse.send returned: the wallet is deployed; `await Dialog.alert`.
CreateSmartWalletSendReturns(t) ==
  /\ Suspended(t, "createSmartWallet", "send")
  /\ tasks' = [tasks EXCEPT ![t] =
       [Traced(@, <<Event("deployed", DeployedContractId(@.locals.deployResponse.call.options)),
                    Alert("", <<"Smart wallet deployed successfully!">>)>>, "alertDeployed")
          EXCEPT !.locals.deployResponse.sent = TRUE]]
  /\ UNCHANGED <<localStorage, document, stellarService, accountSequence>>
  /\ UNCHANGED svc

\* The success alert is dismissed: postLoginActions(contractId).
CreateSmartWalletAlertDismissed(t) ==
  /\ Suspended(t, "createSmartWallet", "alertDeployed")
  /\ PostLoginActions(t, tasks[t],
       DeployedContractId(tasks[t].locals.deployResponse.call.options))
  /\ UNCHANGED accountSequence
  /\ UNCHANGED svc

CreateSmartWallet(t) ==
  \/ CreateSmartWalletStart(t)
  \/ \E a \in PromptAnswers : CreateSmartWalletPromptReturns(t, a)
  \/ \E e \in {"NetworkError"} : CreateSmartWalletCallFails(t, e)
  \/ \E p \in RegistrationResults : CreateSmartWalletPasskeyReturns(t, p)
  \/ CreateSmartWalletDeployReturns(t)
  \/ CreateSmartWalletSignReturns(t)
  \/ CreateSmartWalletSendReturns(t)
  \/ CreateSmartWalletAlertDismissed(t)

(***************************************************************************)
(* addFixedFundForSignedInContract(), with the addFunds of the application *)
(* and of the service that it awaits.                                      *)
(***************************************************************************)
\* Mutant: the result of the existence check is not looked at.
AddFixedFundProceedsAlways(exists) == TRUE

\* if (!exists) { alert; return; }
AddFixedFundProceeds(exists) == exists

\* Call: the stored credential; without one an alert, with one the sdk, the
\* derived contract id and `await contractExists(contractId)`.
AddFixedFundStart(t) ==
  /\ Startable(t)
  /\ LET stored == GetStoredCredential(localStorage)
         task == Started("addFixedFundForSignedInContract",
                         <<Event("getStoredCredential",
                                 [item |-> localStorage[CREDENTIAL_STORAGE_KEY],
                                  credential |-> stored.credential])>>, "start")
     IN /\ localStorage' = stored.localStorage
        /\ IF stored.credential = <<>>
             THEN /\ tasks' = [tasks EXCEPT ![t] =
                       Traced(task, <<Alert("", <<"You need to sign in first to add funds.">>)>>,
                              "alert")]
                  /\ UNCHANGED stellarService
             ELSE LET credential == stored.credential[1]
                      contractId == DeriveContractIdFromPasskeyId(DemoService, credential.rawId)
                  IN /\ stellarService' = GetSmartWalletSdk(stellarService)
                     /\ tasks' = [tasks EXCEPT ![t] =
                          [Traced(task, <<Event("getContractData", contractId)>>, "contractExists")
                             EXCEPT !.credential = credential]]
  /\ UNCHANGED <<document, accountSequence>>
  /\ UNCHANGED svc

\* contractExists answered: without the contract an alert; with it
\* addFunds(contractId, DEFAULT_FUND_AMOUNT_XLM), which asks nothing and
\* calls the service: argument checks, conversion, `await loadAccount`.
AddFixedFundExists(t, task, result) ==
  IF result.kind = "thrown"
    THEN /\ tasks' = [tasks EXCEPT ![t] =
              Traced(task, Caught("Failed to add funds", result.error), "alert")]
         /\ UNCHANGED stellarService
  ELSE LET answered == Traced(task, <<Event("exists", result.value)>>, task.pc)
           contractId == DeriveContractIdFromPasskeyId(DemoService, task.credential.rawId)
           amountToTransferXlm == NumberOf(DEFAULT_FUND_AMOUNT_XLM)
       IN IF AddFixedFundProceeds(result.value)
            THEN /\ stellarService' = GetSmartWalletSdk(stellarService)
                 /\ tasks' = [tasks EXCEPT ![t] =
                      [Traced(answered,
                              <<Event("addFunds", [contractId |-> contractId,
                                                   amount |-> amountToTransferXlm]),
                                Event("loadAccount", [publicKey |-> SubmitterPublicKey])>>,
                              "loadAccount")
                         EXCEPT !.locals.amountToTransfer = xlmToStroops(amountToTransferXlm)]]
            ELSE /\ tasks' = [tasks EXCEPT ![t] =
                      Traced(answered,
                             <<Alert("", <<"No contract found for this passkey. Please create a smart wallet first.">>)>>,
                             "alert")]
                 /\ UNCHANGED stellarService

\* rpcClient.getContractData threw: contractExists answers from its catch.
AddFixedFundExistsLookupFails(t, e) ==
  /\ Suspended(t, "addFixedFundForSignedInContract", "contractExists")
  /\ AddFixedFundExists(t, Traced(tasks[t],
                                  <<Event("failed", [call |-> "getContractData", error |-> e])>>,
                                  "contractExists"),
                        ContractExistsCatch(e))
  /\ UNCHANGED <<localStorage, document, accountSequence>>
  /\ UNCHANGED svc

\* rpcClient.getContractData returned: contractExists answers true.
AddFixedFundExistsLookupReturns(t) ==
  /\ Suspended(t, "addFixedFundForSignedInContract", "contractExists")
  /\ AddFixedFundExists(t, tasks[t], Returned(TRUE))
  /\ UNCHANGED <<localStorage, document, accountSequence>>
  /\ UNCHANGED svc

\* The service's addFunds threw: the application's addFunds catches and alerts.
AddFundsFailed(task, e) ==
  Traced(task, Caught("Failed to add funds", AddFundsCatch(e).error), "alertAddFunds")

AddFundsStages ==
  {"loadAccount", "transfer", "signAuthEntries", "simulateTransaction", "sendTransaction"}

\* An awaited call of the service's addFunds threw.
AddFixedFundCallFails(t, e) ==
  /\ tasks[t].handler = "addFixedFundForSignedInContract"
  /\ tasks[t].pc \in AddFundsStages
  /\ tasks' = [tasks EXCEPT ![t] =
       AddFundsFailed(Traced(@, <<Event("failed", [call |-> tasks[t].pc, error |-> e])>>, @.pc), e)]
  /\ UNCHANGED <<localStorage, document, stellarService, accountSequence>>
  /\ UNCHANGED svc

\* horizonClient.loadAccount returned the account with the ledger's current
\* sequence number; `await sacClient.transfer(...)`.
AddFixedFundLoadAccountReturns(t) ==
  /\ Suspended(t, "addFixedFundForSignedInContract", "loadAccount")
  /\ LET task == [tasks[t] EXCEPT !.locals.account =
                    [id |-> SubmitterPublicKey, sequence |-> accountSequence]]
         contractId == DeriveContractIdFromPasskeyId(DemoService, task.credential.rawId)
     IN IF BigIntThrows(task.locals.amountToTransfer)
          THEN tasks' = [tasks EXCEPT ![t] = AddFundsFailed(task, "RangeError: not an integer")]
          ELSE tasks' = [tasks EXCEPT ![t] =
                 Traced(task, <<Event("transfer",
                                  [from |-> SubmitterPublicKey, to |-> contractId,
                                   amount |-> BigInt(task.locals.amountToTransfer)])>>,
                        "transfer")]
  /\ UNCHANGED <<localStorage, document, stellarService, accountSequence>>
  /\ UNCHANGED svc

\* sacClient.transfer returned; `await sacTx.signAuthEntries(...)`.
AddFixedFundTransferReturns(t) ==
  /\ Suspended(t, "addFixedFundForSignedInContract", "transfer")
  /\ LET task == tasks[t]
         transfer == task.trace[Len(task.trace)].arg
     IN tasks' = [tasks EXCEPT ![t] =
          [Traced(task, <<Event("signAuthEntries", [address |-> SubmitterPublicKey])>>,
                  "signAuthEntries")
             EXCEPT !.locals.sacTx =
                      [kind |-> "assembled", contract |-> NativeContractId,
                       function |-> "transfer",
                       args |-> <<transfer.from, transfer.to, transfer.amount>>,
                       auth |-> <<>>]]]
  /\ UNCHANGED <<localStorage, document, stellarService, accountSequence>>
  /\ UNCHANGED svc

\* Auth entries signed; the provisional transaction is built on the loaded
\* account and signed; `await rpcClient.simulateTransaction(tmpTx)`.
AddFixedFundSignAuthEntriesReturns(t) ==
  /\ Suspended(t, "addFixedFundForSignedInContract", "signAuthEntries")
  /\ LET task == tasks[t]
         sacTx == [task.locals.sacTx EXCEPT !.auth = <<SubmitterPublicKey>>]
         built == BuildTransaction(task.locals.account, 0, InvokeContractFunction(sacTx))
         tmpTx == Sign(built, SubmitterPublicKey)
     IN tasks' = [tasks EXCEPT ![t] =
          [Traced(task, <<Event("simulateTransaction", tmpTx)>>, "simulateTransaction")
             EXCEPT !.locals.sacTx = sacTx, !.locals.tmpTx = tmpTx]]
  /\ UNCHANGED <<localStorage, document, stellarService, accountSequence>>
  /\ UNCHANGED svc

\* The simulation response arrived: the re-priced transaction and its fee
\* bump are built and signed; `await rpcClient.sendTransaction(feeBumpTx)`.
AddFixedFundSimulateReturns(t, simulationRs) ==
  /\ Suspended(t, "addFixedFundForSignedInContract", "simulateTransaction")
  /\ LET task == [tasks[t] EXCEPT !.locals.simulationRs = simulationRs]
     IN IF SimulationFailed(simulationRs)
          THEN tasks' = [tasks EXCEPT ![t] = AddFundsFailed(task, "Simulation failed")]
          ELSE LET sorobanData == [resourceFee |-> simulationRs.resourceFee]
                   resourceFee == sorobanData.resourceFee
                   built == CloneFrom(task.locals.tmpTx, resourceFee, sorobanData)
                   realTransaction == Sign(built, SubmitterPublicKey)
                   bump == BuildFeeBumpTransaction(SubmitterPublicKey, resourceFee,
                                                   realTransaction, NetworkPassphrase)
                   feeBumpTx == Sign(bump, SubmitterPublicKey)
               IN tasks' = [tasks EXCEPT ![t] =
                    [Traced(task, <<Event("sendTransaction", feeBumpTx)>>, "sendTransaction")
                       EXCEPT !.locals.realTransaction = realTransaction,
                              !.locals.feeBumpTx = feeBumpTx]]
  /\ UNCHANGED <<localStorage, document, stellarService, accountSequence>>
  /\ UNCHANGED svc

\* The ledger takes a transaction whose sequence number is the next one of
\* its source account, and rejects any other.
LedgerAccepts(tx, sequence) == tx.sequence = sequence + 1

\* rpcClient.sendTransaction returned its status: the service returns it and
\* the application's addFunds reports it: `await Dialog.alert`.
AddFixedFundSendReturns(t) ==
  /\ Suspended(t, "addFixedFundForSignedInContract", "sendTransaction")
  /\ LET accepted == LedgerAccepts(tasks[t].locals.realTransaction, accountSequence)
         status == IF accepted THEN "PENDING" ELSE "ERROR"
     IN /\ accountSequence' = IF accepted THEN accountSequence + 1 ELSE accountSequence
        /\ tasks' = [tasks EXCEPT ![t] =
             Traced(@, <<Event("sent", [status |-> status]),
                         Alert("", <<"The process of adding funds has started, status: ", status>>)>>,
                    "alertAddFunds")]
  /\ UNCHANGED <<localStorage, document, stellarService>>
  /\ UNCHANGED svc

\* The alert of addFunds is dismissed: addFunds has returned;
\* `await new Promise(resolve => setTimeout(resolve, FUND_TRANSACTION_DELAY_MS))`.
AddFixedFundAlertDismissed(t) ==
  /\ Suspended(t, "addFixedFundForSignedInContract", "alertAddFunds")
  /\ tasks' = [tasks EXCEPT ![t] =
       Traced(@, <<Event("addFundsReturned", Undefined),
                   Event("setTimeout", FUND_TRANSACTION_DELAY_MS)>>, "delay")]
  /\ UNCHANGED <<localStorage, document, stellarService, accountSequence>>
  /\ UNCHANGED svc

\* The timer fired: `await refreshBalance()`.
AddFixedFundDelayElapsed(t) ==
  /\ Suspended(t, "addFixedFundForSignedInContract", "delay")
  /\ RefreshBalance(t, Traced(tasks[t], <<Event("elapsed", FUND_TRANSACTION_DELAY_MS)>>, "delay"))
  /\ UNCHANGED <<document, accountSequence>>
  /\ UNCHANGED svc

\* Simulation responses: without transaction data, or with the least or the
\* greatest resource fee.
DemoSimulationResponses ==
  {r \in SimulationResponses : r.resourceFee \in {0, MaxResourceFee}}

AddFixedFundForSignedInContract(t) ==
  \/ AddFixedFundStart(t)
  \/ \E e \in {"NetworkError", "NotFound"} : AddFixedFundExistsLookupFails(t, e)
  \/ AddFixedFundExistsLookupReturns(t)
  \/ \E e \in {"NetworkError"} : AddFixedFundCallFails(t, e)
  \/ AddFixedFundLoadAccountReturns(t)
  \/ AddFixedFundTransferReturns(t)
  \/ AddFixedFundSignAuthEntriesReturns(t)
  \/ \E r \in DemoSimulationResponses : AddFixedFundSimulateReturns(t, r)
  \/ AddFixedFundSendReturns(t)
  \/ AddFixedFundAlertDismissed(t)
  \/ AddFixedFundDelayElapsed(t)

(***************************************************************************)
(* The application: clicks on its buttons and the answers to its awaits.   *)
(***************************************************************************)
Balances ==
  {[tag |-> "bigint", neg |-> FALSE, magnitude |-> NatOf(b)] : b \in {0, MaxBalance}}

RefreshBalanceStep(t) ==
  \/ \E e \in {"NetworkError"} : RefreshBalanceFails(t, e)
  \/ \E b \in Balances : RefreshBalanceReturns(t, b)
  \/ RefreshBalanceAlertDismissed(t)

NextUI ==
  \/ \E t \in Clicks : CreateSmartWallet(t)
  \/ \E t \in Clicks : SignIn(t)
  \/ \E t \in Clicks : AddFixedFundForSignedInContract(t)
  \/ \E t \in Clicks : RefreshBalanceStep(t)
  \/ \E t \in Clicks : AlertDismissed(t)
  \/ Reset

SpecUI == InitUI /\ [][NextUI]_vars

(***************************************************************************)
(* Properties of the stored credential record.                             *)
(***************************************************************************)
Happened(t, ev) == \E i \in 1..Len(tasks[t].trace) : tasks[t].trace[i].ev = ev

Unparseable(item) == item.present /\ JsonParse(item.text).kind = "thrown"
Parseable(item) == item.present /\ JsonParse(item.text).kind = "returned"

\* The items the invocation read from local storage, in order.
ItemsRead(t) ==
  LET reads == SelectSeq(tasks[t].trace,
                         LAMBDA x : x.ev \in {"getItem", "getStoredCredential"})
  IN [i \in 1..Len(reads) |-> IF reads[i].ev = "getItem" THEN reads[i].arg
                                                         ELSE reads[i].arg.item]

ReadUnparseable(t) == \E i \in 1..Len(ItemsRead(t)) : Unparseable(ItemsRead(t)[i])

ErrorAlerts(t) ==
  SelectSeq(tasks[t].trace, LAMBDA x : x.ev = "alert" /\ x.arg.title = "Error")

\* C22: whenever an invocation has read a stored record that does not parse,
\* the record is gone from local storage and the invocation goes on as it
\* does without a stored credential (signIn turns to the passkey, and no
\* error is reported); this holds for signIn as for the other readers.
C22_CorruptRecordDiscarded ==
  \A t \in Clicks :
    ReadUnparseable(t) =>
      /\ ~Unparseable(localStorage[CREDENTIAL_STORAGE_KEY])
      /\ ErrorAlerts(t) = <<>>
      /\ tasks[t].handler = "signIn" => Happened(t, "authenticate")

\* C23: after a createSmartWallet run, a credential record written by that
\* run is in local storage only if its deployment (deploy, sign and send)
\* succeeded.
C23_CredentialStoredOnlyOnSuccess ==
  \A t \in Clicks :
    (/\ tasks[t].handler = "createSmartWallet"
     /\ tasks[t].pc = "done"
     /\ Happened(t, "setItem")
     /\ localStorage[CREDENTIAL_STORAGE_KEY] = Item(JsonStringify(tasks[t].credential)))
      => Happened(t, "deployed")

(***************************************************************************)
(* Properties of signIn.                                                   *)
(***************************************************************************)
EventsOf(t, ev) == {i \in 1..Len(tasks[t].trace) : tasks[t].trace[i].ev = ev}
ArgAt(t, i) == tasks[t].trace[i].arg

\* The existence check answered `answer` for `contractId` before step i.
CheckedBefore(t, i, contractId, answer) ==
  \E j, k \in 1..(i - 1) :
    /\ j < k
    /\ tasks[t].trace[j].ev = "getContractData" /\ ArgAt(t, j) = contractId
    /\ tasks[t].trace[k].ev = "exists" /\ ArgAt(t, k) = answer

\* C24: a signIn invocation runs the post-login actions (the contract panel
\* is shown) only after the existence check has answered true for the
\* contract id derived from the credential it uses; an invocation whose
\* check answered false never runs them.
C24_PostLoginOnlyAfterExists ==
  \A t \in Clicks :
    tasks[t].handler = "signIn" =>
      /\ \A i \in EventsOf(t, "postLoginActions") :
           /\ ArgAt(t, i) = DeriveContractIdFromPasskeyId(DemoService, tasks[t].credential.rawId)
           /\ CheckedBefore(t, i, ArgAt(t, i), TRUE)
      /\ (\E k \in EventsOf(t, "exists") : ArgAt(t, k) = FALSE)
           => EventsOf(t, "postLoginActions") = {}

\* A sign-in with a stored record whose contract exists: the panel is shown.
C24_Witness ==
  \E t \in Clicks :
    /\ tasks[t].handler = "signIn"
    /\ EventsOf(t, "postLoginActions") # {}
    /\ "contract-info" \notin document.hidden
    /\ document.contractText =
         <<DeriveContractIdFromPasskeyId(DemoService, tasks[t].credential.rawId)>>

\* The item a signIn invocation found under the storage key.
SignInRead(task) == task.trace[1].arg
Names(task) == {task.trace[i].ev : i \in 1..Len(task.trace)}

\* What holds of a signIn invocation at every moment.
SignInSkipsAuthentication(task) ==
  /\ Parseable(SignInRead(task)) => Names(task) \cap {"authenticate", "setItem"} = {}
  /\ "authenticate" \in Names(task) <=> ~SignInRead(task).present
  /\ \A i \in 1..Len(task.trace) :
       task.trace[i].ev = "setItem" =>
         /\ task.trace[i].arg = JsonStringify(task.credential)
         /\ \E j \in 1..(i - 1) : task.trace[j].ev = "authenticate"

\* What holds of every step of a signIn invocation.
SignInStorageStep(t) ==
  LET before == tasks[t]
      after == tasks'[t]
  IN (after # before /\ after.handler = "signIn") =>
       /\ Parseable(SignInRead(after)) => localStorage' = localStorage
       /\ ("setItem" \in Names(after) /\ "setItem" \notin Names(before))
            => \E i \in 1..Len(after.trace) :
                 /\ after.trace[i].ev = "authenticated"
                 /\ localStorage'[CREDENTIAL_STORAGE_KEY]
                      = Item(JsonStringify(ExtractCredential(after.trace[i].arg)))

\* C25: a signIn invocation that finds a parseable record never calls
\* passkey authentication and none of its steps changes the record; it
\* calls authentication exactly when it finds no record, and the step that
\* receives the passkey stores its credential under the storage key.
C25_StoredRecordSkipsAuthentication ==
  /\ [](\A t \in Clicks : tasks[t].handler = "signIn" => SignInSkipsAuthentication(tasks[t]))
  /\ [][\A t \in Clicks : SignInStorageStep(t)]_vars

\* Both cases: one sign-in that used the stored record and went on to the
\* existence check, one that found none and stored the passkey's credential.
C25_Witness ==
  \E t, u \in Clicks :
    /\ tasks[t].handler = "signIn" /\ tasks[u].handler = "signIn"
    /\ Parseable(SignInRead(tasks[t])) /\ "getContractData" \in Names(tasks[t])
    /\ ~SignInRead(tasks[u]).present /\ "setItem" \in Names(tasks[u])

(***************************************************************************)
(* Properties of addFixedFundForSignedInContract.                          *)
(***************************************************************************)
Before(t, first, i) == \E j \in 1..(i - 1) : tasks[t].trace[j].ev = first

\* C27: an addFixedFundForSignedInContract invocation calls addFunds only
\* when it found a stored credential and the existence check answered true
\* for the contract id derived from it, and then for that contract and the
\* fixed amount; otherwise it makes no transfer call and refreshes nothing;
\* the balance refresh comes after addFunds has returned and the delay has
\* elapsed.
C27_TransferOnlyForExistingContract ==
  \A t \in Clicks :
    tasks[t].handler = "addFixedFundForSignedInContract" =>
      LET found == ArgAt(t, 1).credential
      IN /\ \A i \in EventsOf(t, "addFunds") :
              /\ found # <<>>
              /\ ArgAt(t, i).contractId
                   = DeriveContractIdFromPasskeyId(DemoService, found[1].rawId)
              /\ ArgAt(t, i).amount = NumberOf(DEFAULT_FUND_AMOUNT_XLM)
              /\ CheckedBefore(t, i, ArgAt(t, i).contractId, TRUE)
         /\ \A i \in 1..Len(tasks[t].trace) :
              tasks[t].trace[i].ev \in LedgerCalls => Before(t, "addFunds", i)
         /\ \A i \in EventsOf(t, "refreshBalance") :
              \E j, k, l \in 1..(i - 1) :
                /\ j < k /\ k < l
                /\ tasks[t].trace[j].ev = "addFunds"
                /\ tasks[t].trace[k].ev = "addFundsReturned"
                /\ tasks[t].trace[l].ev = "elapsed"
                /\ ArgAt(t, l) = FUND_TRANSACTION_DELAY_MS

\* A transfer was submitted, and after the delay the balance was requested.
C27_Witness ==
  \E t \in Clicks :
    /\ tasks[t].handler = "addFixedFundForSignedInContract"
    /\ EventsOf(t, "sendTransaction") # {}
    /\ EventsOf(t, "refreshBalance") # {}
    /\ tasks[t].pc = "balance"

(***************************************************************************)
(* Properties of the handlers' failure handling.                           *)
(***************************************************************************)
\* The alert that follows the failure recorded at step i of the trace.
ReportedAfter(t, i) ==
  \E j \in (i + 1)..Len(tasks[t].trace) :
    /\ tasks[t].trace[j].ev = "alert"
    /\ ArgAt(t, i).call # "getContractData"
         => /\ ArgAt(t, j).title = "Error"
            /\ ArgAt(t, j).message[2] = ArgAt(t, i).error

C29_PanelOnlyWithRecord ==
  "contract-info" \notin document.hidden
    => localStorage[CREDENTIAL_STORAGE_KEY].present

\* The transactions handed to sendTransaction by an invocation.
Submitted(t) == {ArgAt(t, i) : i \in EventsOf(t, "sendTransaction")}

\* C30: two addFunds invocations that both submit never submit transactions
\* built on the same sequence number of the source account.
C30_DistinctSequenceNumbers ==
  \A t, u \in Clicks :
    t # u =>
      \A a \in Submitted(t), b \in Submitted(u) :
        a.inner.sequence # b.inner.sequence

=============================================================================
